---------------------------- MODULE Spec2Model ----------------------------
(***************************************************************************)
(* A model of the BACnet/IP client library maxzerker/bacnet: the frame     *)
(* codec (BVLC / NPDU / APDU envelope, tag-length-value bodies), the       *)
(* invoke-ID allocator, the mutex-serialised request/response calls, the   *)
(* discovery loop and the COV subscription worker.                         *)
(*                                                                         *)
(* Octets are naturals 0..255 and a datagram is a sequence of octets.      *)
(* A 32-bit word is kept as its four big-endian octets, so that the full   *)
(* unsigned range is representable.                                        *)
(***************************************************************************)
EXTENDS Integers, Sequences, FiniteSets, TLC

(***************************************************************************)
(* Protocol constants                                                      *)
(***************************************************************************)
BVLC_TYPE_BACNET_IP == 129
BVLC_ORIGINAL_UNICAST_NPDU == 10
BVLC_ORIGINAL_BROADCAST_NPDU == 11
NPDU_CONTROL_NORMAL_MESSAGE == 0
APDU_CONFIRMED_REQUEST == 0
APDU_UNCONFIRMED_REQUEST == 16
APDU_SIMPLE_ACK == 32
APDU_COMPLEX_ACK == 48
APDU_ERROR == 80
SERVICE_UNCONFIRMED_I_AM == 0
SERVICE_UNCONFIRMED_WHO_IS == 8
SERVICE_UNCONFIRMED_COV_NOTIFICATION == 1
SERVICE_UNCONFIRMED_EVENT_NOTIFICATION == 2
SERVICE_CONFIRMED_READ_PROPERTY == 12
SERVICE_CONFIRMED_READ_PROPERTY_MULTIPLE == 14
SERVICE_CONFIRMED_SUBSCRIBE_COV == 5
PROP_ALL == 8
PROP_OBJECT_LIST == 76
PROP_PRESENT_VALUE == 85
PROP_STATUS_FLAGS == 111
OBJECT_ANALOG_INPUT == 0
OBJECT_DEVICE == 8

(***************************************************************************)
(* Octet arithmetic                                                        *)
(***************************************************************************)
\* A comparison of the whole octet, flag bits included.
WholeOctet(b) == b

\* apduType & 0xF0
HighNibble(b) == (b \div 16) * 16

\* tag & 0x0F
LowNibble(b) == b % 16

\* Bitwise OR of two octets.
RECURSIVE BitOr8(_, _, _)
BitOr8(a, b, n) ==
    IF n = 0 THEN 0
    ELSE (IF (a % 2 = 1) \/ (b % 2 = 1) THEN 1 ELSE 0)
         + 2 * BitOr8(a \div 2, b \div 2, n - 1)

\* (uint32(type) << 22) | instance, as the four big-endian octets that
\* binary.Write puts on the wire.  The shift drops the bits of type above
\* the tenth; the OR lets instance bits above the 22nd fall onto the type.
PackObjectId(type, instance) ==
    LET t == type % 1024
    IN  << BitOr8(t \div 4, (instance \div 16777216) % 256, 8),
           BitOr8((t % 4) * 64, (instance \div 65536) % 256, 8),
           (instance \div 256) % 256,
           instance % 256 >>

\* BACnetObject{Type: ObjectType(w >> 22), Instance: w & 0x3FFFFF}
\* A decoding that keeps 24 bits of the word as the instance.
UnpackObjectId24(w) ==
    [Type |-> w[1] * 4 + (w[2] \div 64),
     Instance |-> w[2] * 65536 + w[3] * 256 + w[4]]

UnpackObjectId(w) ==
    [Type |-> w[1] * 4 + (w[2] \div 64),
     Instance |-> (w[2] % 64) * 65536 + w[3] * 256 + w[4]]

\* uint16 big-endian, as binary.Write encodes BVLCHeader.Length
U16BE(n) == << (n % 65536) \div 256, n % 256 >>

(***************************************************************************)
(* bytes.Reader: a position into a datagram.  pos counts consumed octets.  *)
(***************************************************************************)
\* r.ReadByte(): at the end it reports an error and yields octet 0.
ReadByte(data, pos) ==
    IF pos < Len(data)
    THEN [ok |-> TRUE, b |-> data[pos + 1], pos |-> pos + 1]
    ELSE [ok |-> FALSE, b |-> 0, pos |-> pos]

\* io.ReadFull(r, buf) with len(buf) = n (also binary.Read of a fixed-size
\* value): on a short read the reader is left at the end and the value is
\* not decoded.
ReadFull(data, pos, n) ==
    IF pos + n <= Len(data)
    THEN [ok |-> TRUE, bytes |-> SubSeq(data, pos + 1, pos + n), pos |-> pos + n]
    ELSE [ok |-> FALSE, bytes |-> << >>,
          pos |-> IF pos < Len(data) THEN Len(data) ELSE pos]

\* val = (val << 8) | buf[i] over a uint32: the last four octets survive.
FoldUint32(buf) ==
    LET n == Len(buf)
        at(i) == IF n - 4 + i >= 1 THEN buf[n - 4 + i] ELSE 0
    IN  << at(1), at(2), at(3), at(4) >>

(***************************************************************************)
(* Tag codec.  A decoded value carries the name of its Go dynamic type.    *)
(* Every decoder returns [ok, val, pos]: ok is "err == nil", pos the       *)
(* reader position it leaves.                                              *)
(***************************************************************************)
NoValue == [k |-> "none"]

DecodeFail(pos) == [ok |-> FALSE, val |-> NoValue, pos |-> pos]

\* decodeStatusFlags: unused-bit count must be 4, then one flags octet.
\* A decoding that takes any count of unused bits.
decodeStatusFlagsAnyCount(data, pos) ==
    LET f == ReadByte(data, pos + 1)
    IN  IF ~f.ok THEN DecodeFail(f.pos)
        ELSE [ok |-> TRUE, val |-> [k |-> "StatusFlags"], pos |-> f.pos]

decodeStatusFlags(data, pos) ==
    LET u == ReadByte(data, pos)
    IN  IF ~u.ok THEN DecodeFail(u.pos)
        ELSE IF u.b # 4 THEN DecodeFail(u.pos)
        ELSE LET f == ReadByte(data, u.pos)
             IN  IF ~f.ok THEN DecodeFail(f.pos)
                 ELSE [ok |-> TRUE,
                       val |-> [k |-> "StatusFlags",
                                InAlarm |-> (f.b \div 8) % 2 = 1,
                                Fault |-> (f.b \div 4) % 2 = 1,
                                Overridden |-> (f.b \div 2) % 2 = 1,
                                OutOfService |-> f.b % 2 = 1],
                       pos |-> f.pos]

\* The payload of an Unsigned, Enumerated or unrecognised tag.
DecodeSized(data, pos, lenVal, kind) ==
    LET p == ReadFull(data, pos, lenVal)
    IN  IF ~p.ok THEN DecodeFail(p.pos)
        ELSE [ok |-> TRUE,
              val |-> IF kind = "uint32"
                      THEN [k |-> "uint32", w |-> FoldUint32(p.bytes)]
                      ELSE [k |-> "bytes", s |-> p.bytes],
              pos |-> p.pos]

\* lenVal-1 over uint32, as its two 16-bit halves: 0 - 1 is 2^32-1.
StringBufferLen(lenVal) ==
    [hi |-> IF lenVal = 0 THEN 65535 ELSE 0, lo |-> (lenVal + 65535) % 65536]

\* CharacterString: one encoding octet, then lenVal-1 octets.  lenVal is a
\* uint32, so lenVal = 0 asks for 2^32-1 octets, which no datagram holds.
DecodeCharacterString(data, pos, lenVal) ==
    LET e == ReadByte(data, pos)
        n == StringBufferLen(lenVal)
    IN  IF ~e.ok THEN DecodeFail(e.pos)
        ELSE IF n.hi # 0 THEN DecodeFail(Len(data))
        ELSE LET p == ReadFull(data, e.pos, n.lo)
             IN  IF ~p.ok THEN DecodeFail(p.pos)
                 ELSE [ok |-> TRUE, val |-> [k |-> "string", s |-> p.bytes],
                       pos |-> p.pos]

\* Real and ObjectIdentifier: binary.Read of four octets whatever lenVal is.
DecodeWord(data, pos, kind) ==
    LET p == ReadFull(data, pos, 4)
    IN  IF ~p.ok THEN DecodeFail(p.pos)
        ELSE [ok |-> TRUE,
              val |-> IF kind = "float32"
                      THEN [k |-> "float32", w |-> p.bytes]
                      ELSE [k |-> "BACnetObject",
                            Type |-> UnpackObjectId(p.bytes).Type,
                            Instance |-> UnpackObjectId(p.bytes).Instance],
              pos |-> p.pos]

\* A decoder that knows no extended length.
IsExtendedNever(tag) == FALSE

\* if lenVal == 5: the length is in the octet after the tag
IsExtended(tag) == LowNibble(tag) = 5

decodeApplicationValue(data, pos) ==
    LET t == ReadByte(data, pos)
    IN  IF ~t.ok THEN DecodeFail(t.pos)
        ELSE
        LET tagNumber == t.b \div 16
            ext == IsExtended(t.b)
            l == IF ext THEN ReadByte(data, t.pos) ELSE t
            lenVal == IF ext THEN l.b ELSE LowNibble(t.b)
        IN  IF ext /\ ~l.ok THEN DecodeFail(l.pos)
            ELSE CASE tagNumber = 0 ->
                        [ok |-> TRUE, val |-> [k |-> "nil"], pos |-> l.pos]
                   [] tagNumber = 1 ->
                        [ok |-> TRUE, val |-> [k |-> "bool", v |-> lenVal = 1],
                         pos |-> l.pos]
                   [] tagNumber = 2 -> DecodeSized(data, l.pos, lenVal, "uint32")
                   [] tagNumber = 4 -> DecodeWord(data, l.pos, "float32")
                   [] tagNumber = 7 -> DecodeCharacterString(data, l.pos, lenVal)
                   [] tagNumber = 8 -> decodeStatusFlags(data, l.pos)
                   [] tagNumber = 9 -> DecodeSized(data, l.pos, lenVal, "uint32")
                   [] tagNumber = 12 -> DecodeWord(data, l.pos, "BACnetObject")
                   [] OTHER -> DecodeSized(data, l.pos, lenVal, "bytes")

(***************************************************************************)
(* Service decoders.  Each returns [ok, val]: ok is "err == nil".          *)
(***************************************************************************)
ParseFail == [ok |-> FALSE, val |-> NoValue]

\* The record loop of parseCOVNotification: (context-0 property ID,
\* open-tag-2, one application value, close-tag-2)* close-tag-4.
\* A list that grows at its front.
PrependValue(list, v) == <<v>> \o list

\* notification.ListOfValues = append(notification.ListOfValues, ...)
AppendValue(list, v) == Append(list, v)

RECURSIVE CovValueLoop(_, _, _)
CovValueLoop(data, pos, acc) ==
    LET t == ReadByte(data, pos)
    IN  IF ~t.ok THEN ParseFail
        ELSE IF t.b = 79 THEN [ok |-> TRUE, val |-> acc]
        ELSE IF t.b # 9 THEN ParseFail
        ELSE
        LET p == ReadFull(data, t.pos, 1)
        IN  IF ~p.ok THEN ParseFail
            ELSE
            LET o == ReadByte(data, p.pos)
                Decoded(v) ==
                    IF ~v.ok THEN ParseFail
                    ELSE
                    LET c == ReadByte(data, v.pos)
                    IN  IF ~c.ok \/ c.b # 47 THEN ParseFail
                        ELSE CovValueLoop(data, c.pos,
                                 AppendValue(acc, [PropertyID |-> p.bytes[1],
                                                   Value |-> v.val]))
            IN  IF ~o.ok \/ o.b # 46 THEN ParseFail
                ELSE Decoded(decodeApplicationValue(data, o.pos))

\* parseCOVNotification.  The envelope is skipped by r.Seek(6, 0); the
\* service choice must be SERVICE_UNCONFIRMED_EVENT_NOTIFICATION.
parseCOVNotification(data) ==
    LET a == ReadByte(data, 6)
    IN  IF ~a.ok THEN ParseFail
        ELSE IF HighNibble(a.b) # APDU_UNCONFIRMED_REQUEST THEN ParseFail
        ELSE
        LET s == ReadByte(data, a.pos)
        IN  IF ~s.ok THEN ParseFail
            ELSE IF s.b # SERVICE_UNCONFIRMED_EVENT_NOTIFICATION THEN ParseFail
            ELSE
            LET t0 == ReadByte(data, s.pos)
                subId == ReadByte(data, t0.pos)
                t1 == ReadByte(data, subId.pos)
                devId == ReadFull(data, t1.pos, 4)
                t2 == ReadByte(data, devId.pos)
                objId == ReadFull(data, t2.pos, 4)
                t3 == ReadByte(data, objId.pos)
                timeRem == ReadByte(data, t3.pos)
                t4 == ReadByte(data, timeRem.pos)
                word(r) == IF r.ok THEN r.bytes ELSE <<0, 0, 0, 0>>
            IN  IF t0.b # 9 THEN ParseFail
                ELSE IF t1.b # 28 THEN ParseFail
                ELSE IF t2.b # 44 THEN ParseFail
                ELSE IF t3.b # 57 THEN ParseFail
                ELSE IF ~t4.ok THEN ParseFail
                ELSE IF t4.b # 78 THEN ParseFail
                ELSE
                LET Listed(vals) ==
                        IF ~vals.ok THEN ParseFail
                        ELSE [ok |-> TRUE,
                              val |-> [SubscriberProcessIdentifier |-> subId.b,
                                       InitiatingDeviceIdentifier |->
                                           UnpackObjectId(word(devId)),
                                       MonitoredObjectIdentifier |->
                                           UnpackObjectId(word(objId)),
                                       TimeRemaining |-> timeRem.b,
                                       ListOfValues |-> vals.val]]
                IN  Listed(CovValueLoop(data, t4.pos, << >>))

\* parseIAm.  addr is the sender's transport address.
parseIAm(data, addr) ==
    LET bvlc == ReadFull(data, 0, 4)
        npdu == ReadFull(data, bvlc.pos, 2)
        apduType == ReadByte(data, npdu.pos)
        serviceChoice == ReadByte(data, apduType.pos)
        t1 == ReadByte(data, serviceChoice.pos)
        objectIdentifier == ReadFull(data, t1.pos, 4)
        t2 == ReadByte(data, objectIdentifier.pos)
        maxAPDULen == ReadFull(data, t2.pos, 2)
        t3 == ReadByte(data, maxAPDULen.pos)
        segmentation == ReadFull(data, t3.pos, 1)
        t4 == ReadByte(data, segmentation.pos)
        vendorID == ReadFull(data, t4.pos, 2)
    IN  IF ~bvlc.ok THEN ParseFail
        ELSE IF bvlc.bytes[1] # BVLC_TYPE_BACNET_IP THEN ParseFail
        ELSE IF ~npdu.ok THEN ParseFail
        ELSE IF HighNibble(apduType.b) # APDU_UNCONFIRMED_REQUEST THEN ParseFail
        ELSE IF serviceChoice.b # SERVICE_UNCONFIRMED_I_AM THEN ParseFail
        ELSE IF ~t1.ok \/ t1.b # 196 THEN ParseFail
        ELSE IF ~objectIdentifier.ok THEN ParseFail
        ELSE IF ~t2.ok \/ t2.b # 34 THEN ParseFail
        ELSE IF ~maxAPDULen.ok THEN ParseFail
        ELSE IF ~t3.ok \/ t3.b # 145 THEN ParseFail
        ELSE IF ~segmentation.ok THEN ParseFail
        ELSE IF ~t4.ok \/ t4.b # 34 THEN ParseFail
        ELSE IF ~vendorID.ok THEN ParseFail
        ELSE [ok |-> TRUE,
              val |-> [DeviceID |-> UnpackObjectId(objectIdentifier.bytes).Instance,
                       Addr |-> addr,
                       MaxAPDU |-> maxAPDULen.bytes[1] * 256 + maxAPDULen.bytes[2]]]

\* A failed reply decode, with the site of the mismatch.
AckFail(why) == [ok |-> FALSE, val |-> NoValue, err |-> why]

AckOk(v) == [ok |-> TRUE, val |-> v, err |-> "nil"]

\* The envelope and APDU-header checks that open parseObjectList (which has
\* no Error-PDU branch: checkError = FALSE), parseObjectPropertyList and
\* parseReadPropertyMultipleResponse.  Yields [err, pos]; err = "nil" when
\* the header is accepted.  A missing invoke-ID octet reads as 0.
AckHeader(data, expectedInvokeID, expectedService, checkError) ==
    LET bvlc == ReadFull(data, 0, 4)
        npdu == ReadFull(data, bvlc.pos, 2)
        apduType == ReadByte(data, npdu.pos)
        invokeID == ReadByte(data, apduType.pos)
        service == ReadByte(data, invokeID.pos)
        e == IF ~bvlc.ok THEN "error reading BVLC header"
             ELSE IF ~npdu.ok THEN "error reading NPDU header"
             ELSE IF ~apduType.ok THEN "error reading APDU type"
             ELSE IF checkError /\ HighNibble(apduType.b) = APDU_ERROR
                  THEN "received BACnet Error PDU"
             ELSE IF HighNibble(apduType.b) # APDU_COMPLEX_ACK
                  THEN "not a Complex-ACK"
             ELSE IF invokeID.b # expectedInvokeID THEN "invoke ID mismatch"
             ELSE IF ~service.ok THEN "error reading service choice"
             ELSE IF service.b # expectedService THEN "unexpected service"
             ELSE "nil"
    IN  [err |-> e, pos |-> service.pos]

\* The object-identifier loop of parseObjectList: the list ends at
\* close-tag-3 and also where the input ends.
RECURSIVE ObjectListLoop(_, _, _)
ObjectListLoop(data, pos, acc) ==
    LET t == ReadByte(data, pos)
    IN  IF ~t.ok THEN AckOk(acc)
        ELSE IF t.b = 63 THEN AckOk(acc)
        ELSE IF t.b = 196
        THEN LET w == ReadFull(data, t.pos, 4)
             IN  IF ~w.ok THEN AckFail("error reading object id from list")
                 ELSE ObjectListLoop(data, w.pos,
                                     Append(acc, UnpackObjectId(w.bytes)))
        ELSE AckFail("unexpected tag in object list")

parseObjectList(data, expectedInvokeID) ==
    LET h == AckHeader(data, expectedInvokeID,
                       SERVICE_CONFIRMED_READ_PROPERTY, FALSE)
        t0 == ReadByte(data, h.pos)
        objID == ReadFull(data, t0.pos, 4)
        t1 == ReadByte(data, objID.pos)
        propID == ReadFull(data, t1.pos, 1)
        t3 == ReadByte(data, propID.pos)
    IN  IF h.err # "nil" THEN AckFail(h.err)
        ELSE IF ~t0.ok \/ t0.b # 12 THEN AckFail("object identifier tag")
        ELSE IF ~objID.ok THEN AckFail("object identifier")
        ELSE IF ~t1.ok \/ t1.b # 25 THEN AckFail("property identifier tag")
        ELSE IF ~propID.ok THEN AckFail("property identifier")
        ELSE IF ~t3.ok \/ t3.b # 62 THEN AckFail("opening tag for object list")
        ELSE ObjectListLoop(data, t3.pos, << >>)

\* One bracketed property value of parseObjectPropertyList: application
\* values up to close-tag-4.  Yields [ok, val, pos], val the values read.
RECURSIVE ValuesLoop(_, _, _)
ValuesLoop(data, pos, acc) ==
    LET peek == ReadByte(data, pos)
    IN  IF ~peek.ok THEN DecodeFail(pos)
        ELSE IF peek.b = 79 THEN [ok |-> TRUE, val |-> acc, pos |-> peek.pos]
        ELSE LET Decoded(v) ==
                     IF ~v.ok THEN DecodeFail(v.pos)
                     ELSE ValuesLoop(data, v.pos, Append(acc, v.val))
             IN  Decoded(decodeApplicationValue(data, pos))

\* One bracketed property value of parseReadPropertyMultipleResponse:
\* exactly one application value, then close-tag-4.
SingleValue(data, pos) ==
    LET Decoded(v) ==
            LET c == ReadByte(data, v.pos)
            IN  IF ~v.ok THEN DecodeFail(v.pos)
                ELSE IF ~c.ok \/ c.b # 79 THEN DecodeFail(c.pos)
                ELSE [ok |-> TRUE, val |-> v.val, pos |-> c.pos]
    IN  Decoded(decodeApplicationValue(data, pos))

\* finalValue: the value itself when there is exactly one, else the list.
FinalValue(values) ==
    IF Len(values) = 1 THEN values[1] ELSE [k |-> "list", items |-> values]

\* The property-record loop shared by both ReadPropertyMultiple-ACK
\* decoders, up to close-tag-1.  multi selects how a bracketed value is
\* read.  Yields [ok, val, pos], val the sequence of property records.
RECURSIVE PropertyLoop(_, _, _, _)
PropertyLoop(data, pos, acc, multi) ==
    LET t == ReadByte(data, pos)
    IN  IF ~t.ok THEN DecodeFail(pos)
        ELSE IF t.b = 31 THEN [ok |-> TRUE, val |-> acc, pos |-> t.pos]
        ELSE IF t.b # 41 THEN DecodeFail(t.pos)
        ELSE
        LET p == ReadFull(data, t.pos, 1)
            o == ReadByte(data, p.pos)
        IN  IF ~p.ok THEN DecodeFail(p.pos)
            ELSE IF ~o.ok \/ o.b # 78 THEN DecodeFail(o.pos)
            ELSE
            LET Bracketed(v) ==
                    IF ~v.ok THEN DecodeFail(v.pos)
                    ELSE PropertyLoop(data, v.pos,
                             Append(acc, [PropertyID |-> p.bytes[1],
                                          Value |-> IF multi
                                                    THEN FinalValue(v.val)
                                                    ELSE v.val]),
                             multi)
            IN  Bracketed(IF multi THEN ValuesLoop(data, o.pos, << >>)
                          ELSE SingleValue(data, o.pos))

\* The read-access-result loop: context-0 object identifier, open-tag-1,
\* property records, close-tag-1, until the reader is exhausted.  Yields
\* [ok, val], val the sequence of [object, props] results in wire order.
RECURSIVE ResultLoop(_, _, _, _)
ResultLoop(data, pos, acc, multi) ==
    IF pos >= Len(data) THEN [ok |-> TRUE, val |-> acc]
    ELSE
    LET t == ReadByte(data, pos)
        w == ReadFull(data, t.pos, 4)
        o == ReadByte(data, w.pos)
    IN  IF t.b # 12 THEN ParseFail
        ELSE IF ~w.ok THEN ParseFail
        ELSE IF ~o.ok \/ o.b # 30 THEN ParseFail
        ELSE LET Properties(ps) ==
                     IF ~ps.ok THEN ParseFail
                     ELSE ResultLoop(data, ps.pos,
                              Append(acc, [object |-> UnpackObjectId(w.bytes),
                                           props |-> ps.val]),
                              multi)
             IN  Properties(PropertyLoop(data, o.pos, << >>, multi))

\* allProperties: the property records of every result, concatenated.
RECURSIVE Flatten(_)
Flatten(results) ==
    IF results = << >> THEN << >>
    ELSE Head(results).props \o Flatten(Tail(results))

parseObjectPropertyList(data, expectedInvokeID) ==
    LET Results(rs) ==
            IF ~rs.ok THEN AckFail("read access result")
            ELSE AckOk(Flatten(rs.val))
        Header(h) ==
            IF h.err # "nil" THEN AckFail(h.err)
            ELSE Results(ResultLoop(data, h.pos, << >>, TRUE))
    IN  Header(AckHeader(data, expectedInvokeID,
                         SERVICE_CONFIRMED_READ_PROPERTY_MULTIPLE, TRUE))

\* objectProperties[uint32(propID)] = val over the records of one result.
RECURSIVE PropsMap(_)
PropsMap(props) ==
    IF props = << >> THEN << >>
    ELSE LET rest == PropsMap(SubSeq(props, 1, Len(props) - 1))
             last == props[Len(props)]
         IN  [id \in (DOMAIN rest) \cup {last.PropertyID} |->
                 IF id = last.PropertyID THEN last.Value ELSE rest[id]]

\* results[currentObject] = objectProperties over the results.
RECURSIVE ResultsMap(_)
ResultsMap(results) ==
    IF results = << >> THEN << >>
    ELSE LET rest == ResultsMap(SubSeq(results, 1, Len(results) - 1))
             last == results[Len(results)]
         IN  [o \in (DOMAIN rest) \cup {last.object} |->
                 IF o = last.object THEN PropsMap(last.props) ELSE rest[o]]

parseReadPropertyMultipleResponse(data, expectedInvokeID) ==
    LET Results(rs) ==
            IF ~rs.ok THEN AckFail("read access result")
            ELSE AckOk(ResultsMap(rs.val))
        Header(h) ==
            IF h.err # "nil" THEN AckFail(h.err)
            ELSE Results(ResultLoop(data, h.pos, << >>, FALSE))
    IN  Header(AckHeader(data, expectedInvokeID,
                         SERVICE_CONFIRMED_READ_PROPERTY_MULTIPLE, TRUE))

\* The Simple-ACK check that ends sendSubscribeCOVRequest: r.Seek(6, 0),
\* then the APDU type and the invoke ID, both read with the error ignored.
parseSimpleAck(data, invokeID) ==
    LET apduType == ReadByte(data, 6)
        respInvokeID == ReadByte(data, apduType.pos)
    IN  IF HighNibble(apduType.b) # APDU_SIMPLE_ACK THEN AckFail("not a Simple-ACK")
        ELSE IF respInvokeID.b # invokeID THEN AckFail("invoke ID mismatch")
        ELSE AckOk([k |-> "nil"])

(***************************************************************************)
(* Service encoders: the datagram each operation hands to conn.WriteTo.    *)
(***************************************************************************)
\* BVLC header (type, function, length = 4 + 2 + len(APDU) as a uint16),
\* NPDU (version 1, control), then the APDU.
Envelope(function, control, apdu) ==
    <<BVLC_TYPE_BACNET_IP, function>> \o U16BE(4 + 2 + Len(apdu))
        \o <<1, control>> \o apdu

\* A conversion that saturates at 255.
ByteSaturated(x) == IF x > 255 THEN 255 ELSE x

\* byte(x), uint8(x): the low octet
Byte(x) == x % 256

\* WhoIs: the Who-Is broadcast, with the length written as the literal 8.
WhoIsRequest ==
    <<BVLC_TYPE_BACNET_IP, BVLC_ORIGINAL_BROADCAST_NPDU>> \o U16BE(8)
        \o <<1, NPDU_CONTROL_NORMAL_MESSAGE>>
        \o <<APDU_UNCONFIRMED_REQUEST, SERVICE_UNCONFIRMED_WHO_IS>>

\* sendSubscribeCOVRequest: processID is subscriberProcessIdentifier,
\* confirmed is issueConfirmedNotifications, lt is lifetime.
SubscribeCOVRequest(invokeID, object, processID, confirmed, lt) ==
    Envelope(BVLC_ORIGINAL_UNICAST_NPDU, 4,
        <<2, 117, invokeID, SERVICE_CONFIRMED_SUBSCRIBE_COV>>
        \o <<9, Byte(processID)>>
        \o <<28>> \o PackObjectId(object.Type, object.Instance)
        \o <<41, IF confirmed THEN 1 ELSE 0>>
        \o <<57, Byte(lt)>>)

\* GetObjectList: ReadProperty of the device's object-list
GetObjectListRequest(invokeID, deviceID) ==
    Envelope(BVLC_ORIGINAL_UNICAST_NPDU, 4,
        <<2, 117, invokeID, SERVICE_CONFIRMED_READ_PROPERTY>>
        \o <<12>> \o PackObjectId(OBJECT_DEVICE, deviceID)
        \o <<25, Byte(PROP_OBJECT_LIST)>>)

\* GetObjectAllPropertyList: ReadPropertyMultiple of property ALL
GetObjectAllPropertyListRequest(invokeID, object) ==
    Envelope(BVLC_ORIGINAL_UNICAST_NPDU, 4,
        <<2, 117, invokeID, SERVICE_CONFIRMED_READ_PROPERTY_MULTIPLE>>
        \o <<12>> \o PackObjectId(object.Type, object.Instance)
        \o <<30, 9, PROP_ALL, 31>>)

\* One read-access specification of ReadPropertiesFromMultipleObjects: the
\* nine octets one turn of its loop writes.
ObjectSpec(object, propertyID) ==
    <<12>> \o PackObjectId(object.Type, object.Instance)
        \o <<30, 9, Byte(propertyID), 31>>

\* The read-access specifications of ReadPropertiesFromMultipleObjects:
\* octet i is written by turn (i - 1) \div 9 + 1 of the loop.
ObjectSpecs(objects, propertyID) ==
    [i \in 1..(9 * Len(objects)) |->
        LET turn == ObjectSpec(objects[((i - 1) \div 9) + 1], propertyID)
        IN  turn[((i - 1) % 9) + 1]]

\* ReadPropertiesFromMultipleObjects: the invoke ID is allocated but the
\* header written is 02 75 <service>; no invoke-ID octet is put on the wire.
ReadPropertiesFromMultipleObjectsRequest(invokeID, objects, propertyID) ==
    Envelope(BVLC_ORIGINAL_UNICAST_NPDU, 4,
        <<2, 117, SERVICE_CONFIRMED_READ_PROPERTY_MULTIPLE>>
        \o ObjectSpecs(objects, propertyID))

\* The property references of ReadSpecificPropertiesFromObject: each turn
\* of the loop writes the tag 09 and the property identifier's low octet.
PropertyRefs(propertyIDs) ==
    [i \in 1..(2 * Len(propertyIDs)) |->
        IF i % 2 = 1 THEN 9 ELSE Byte(propertyIDs[i \div 2])]

\* ReadSpecificPropertiesFromObject
ReadSpecificPropertiesFromObjectRequest(invokeID, object, propertyIDs) ==
    Envelope(BVLC_ORIGINAL_UNICAST_NPDU, 4,
        <<2, 117, invokeID, SERVICE_CONFIRMED_READ_PROPERTY_MULTIPLE>>
        \o <<12>> \o PackObjectId(object.Type, object.Instance)
        \o <<30>> \o PropertyRefs(propertyIDs) \o <<31>>)

\* The tail of ReadSpecificPropertiesFromObject: the requested object's
\* entry of the parsed map, or an error when the map has none.
ExtractObject(parsed, object) ==
    IF ~parsed.ok THEN parsed
    ELSE IF object \in DOMAIN parsed.val THEN AckOk(parsed.val[object])
    ELSE AckFail("object not found in ReadPropertyMultiple response")

(***************************************************************************)
(* The network and the device: what may arrive on the client's socket.     *)
(***************************************************************************)
\* The arguments the modelled callers pass.
TheDevice == [DeviceID |-> 1234]
TheObject == [Type |-> OBJECT_ANALOG_INPUT, Instance |-> 3]
TheProcessID == 123
ThePropertyIDs == <<PROP_PRESENT_VALUE, PROP_STATUS_FLAGS>>

\* A reply envelope, as a device sends it.
Reply(apdu) == Envelope(BVLC_ORIGINAL_UNICAST_NPDU, NPDU_CONTROL_NORMAL_MESSAGE, apdu)

\* A notification datagram for the record n, with the given unconfirmed
\* service choice: the fields in the order parseCOVNotification reads them,
\* every listed value a Real.
RECURSIVE EncodeValues(_)
EncodeValues(vs) ==
    IF vs = << >> THEN << >>
    ELSE <<9, Head(vs).PropertyID, 46, 68>> \o Head(vs).Value.w \o <<47>>
         \o EncodeValues(Tail(vs))

EncodeNotification(service, n) ==
    Reply(<<APDU_UNCONFIRMED_REQUEST, service>>
          \o <<9, n.SubscriberProcessIdentifier>>
          \o <<28>> \o PackObjectId(n.InitiatingDeviceIdentifier.Type,
                                    n.InitiatingDeviceIdentifier.Instance)
          \o <<44>> \o PackObjectId(n.MonitoredObjectIdentifier.Type,
                                    n.MonitoredObjectIdentifier.Instance)
          \o <<57, n.TimeRemaining>>
          \o <<78>> \o EncodeValues(n.ListOfValues) \o <<79>>)

\* The notification records the device reports: present value 42.0, 43.0.
Notification(real) ==
    [SubscriberProcessIdentifier |-> TheProcessID,
     InitiatingDeviceIdentifier |-> [Type |-> OBJECT_DEVICE, Instance |-> TheDevice.DeviceID],
     MonitoredObjectIdentifier |-> TheObject,
     TimeRemaining |-> 50,
     ListOfValues |-> <<[PropertyID |-> PROP_PRESENT_VALUE,
                         Value |-> [k |-> "float32", w |-> real]]>>]

NotificationA == Notification(<<66, 40, 0, 0>>)
NotificationB == Notification(<<66, 44, 0, 0>>)

\* I-Am of device 1234: max APDU 1476, segmentation 0, vendor 42.
IAmDatagram ==
    Reply(<<APDU_UNCONFIRMED_REQUEST, SERVICE_UNCONFIRMED_I_AM, 196>>
          \o PackObjectId(OBJECT_DEVICE, TheDevice.DeviceID)
          \o <<34, 5, 196, 145, 0, 34, 0, 42>>)

\* A Simple-ACK cut after its first APDU octet: 81 0A 00 07 01 00 20.
ShortSimpleAck == Reply(<<APDU_SIMPLE_ACK>>)

\* Datagrams that reach the socket without having been asked for.
Unsolicited ==
    { EncodeNotification(SERVICE_UNCONFIRMED_EVENT_NOTIFICATION, NotificationA),
      EncodeNotification(SERVICE_UNCONFIRMED_EVENT_NOTIFICATION, NotificationB),
      EncodeNotification(SERVICE_UNCONFIRMED_COV_NOTIFICATION, NotificationA),
      IAmDatagram,
      ShortSimpleAck }

\* The device answers the request it reads: it takes the third APDU octet
\* as the invoke ID and the fourth as the service choice.
SimpleAck(id, svc) == Reply(<<APDU_SIMPLE_ACK, id, svc>>)

ObjectListAck(id) ==
    Reply(<<APDU_COMPLEX_ACK, id, SERVICE_CONFIRMED_READ_PROPERTY, 12>>
          \o PackObjectId(OBJECT_DEVICE, TheDevice.DeviceID)
          \o <<25, PROP_OBJECT_LIST, 62, 196>>
          \o PackObjectId(TheObject.Type, TheObject.Instance) \o <<63>>)

ReadPropertyMultipleAck(id) ==
    Reply(<<APDU_COMPLEX_ACK, id, SERVICE_CONFIRMED_READ_PROPERTY_MULTIPLE, 12>>
          \o PackObjectId(TheObject.Type, TheObject.Instance)
          \o <<30, 41, PROP_PRESENT_VALUE, 78, 68, 66, 40, 0, 0, 79, 31>>)

ErrorPDU(id, svc) == Reply(<<APDU_ERROR, id, svc, 145, 2, 145, 32>>)

DeviceReplies(request) ==
    LET id == request[9]
        svc == request[10]
    IN  { CASE svc = SERVICE_CONFIRMED_SUBSCRIBE_COV -> SimpleAck(id, svc)
            [] svc = SERVICE_CONFIRMED_READ_PROPERTY -> ObjectListAck(id)
            [] svc = SERVICE_CONFIRMED_READ_PROPERTY_MULTIPLE ->
                   ReadPropertyMultipleAck(id)
            [] OTHER -> ErrorPDU(id, svc),
          ErrorPDU(id, svc) }

\* Every datagram the network of this model can carry to the socket.
Datagrams ==
    Unsolicited
    \cup UNION { DeviceReplies(<<0, 0, 0, 0, 0, 0, 0, 0, id, svc>>) :
                   id \in 0..255,
                   svc \in {SERVICE_CONFIRMED_SUBSCRIBE_COV,
                            SERVICE_CONFIRMED_READ_PROPERTY,
                            SERVICE_CONFIRMED_READ_PROPERTY_MULTIPLE} }

\* parseCOVNotification over those datagrams, as a table.
NotificationOf == [d \in Datagrams |-> parseCOVNotification(d)]

(***************************************************************************)
(* The client: one BACnetClient, its socket and mutex, the process-wide    *)
(* invoke-ID allocator, callers of the request/response operations, one    *)
(* discovery caller and one subscription worker with its consumer.         *)
(***************************************************************************)
\* Bounds of the model.
\* Environment events in one behaviour: calls started, renewal ticks,
\* discovery calls and datagrams arriving unasked.
MaxEvents == 3
MaxQueue == 2        \* datagrams waiting in the socket's receive buffer

\* cap(errChan): make(chan error, 1)
ErrChanCap == 1

Callers == {"t1"}
W == "w"
D == "d"
Lockers == Callers \cup {W}
Procs == Lockers \cup {D}

Ops == {"GetObjectList", "GetObjectAllPropertyList",
        "ReadPropertiesFromMultipleObjects", "ReadSpecificPropertiesFromObject"}

\* The allocator states a run may start from: fresh, and one short of the wrap.
InitIDs == {0, 255}

\* The lifetime the subscriber asks for where time is not measured, and the
\* lifetimes and request timeouts (seconds) where it is.
Lifetimes == {60}
TimedLifetimes == {1, 5}
Timeouts == {1, 3}

\* requestTimeout of cmd/examples/subscribe, in seconds
DefaultTimeout == 5

\* Seconds a subscription is followed after its last SubscribeCOV request.
MaxAge == 7

VARIABLES
    mu,             \* c.mu: "free" or the process holding it
    lastID,         \* GInvokeIDManager.lastID
    sock,           \* the socket's receive buffer, oldest first
    pending,        \* requests sent that the device has not answered
    pc,             \* where each process is
    call,           \* the locals of each process's current exchange
    res,            \* per process: what its exchange or poll just returned
    phase,          \* worker: "initial" or "renewal" exchange
    lifetime,       \* worker: the lifetime argument
    wmsg,           \* worker: the notification it is about to deliver
    werr,           \* worker: the error it is about to deliver
    cancelled,      \* ctx.Done() is closed
    tickPending,    \* a tick waits in ticker.C
    polled,         \* notifications parsed by the worker, in read order
    delivered,      \* notifications received from covChan, in order
    covClosed,      \* covChan is closed
    errBuf,         \* errChan's buffer
    errClosed,      \* errChan is closed
    sendOnClosed,   \* a send on a closed channel has happened
    devices,        \* WhoIs: the devices collected so far
    dres,           \* WhoIs: what the last call returned
    nev,            \* environment events so far, which MaxEvents caps
    timed,          \* whether this behaviour measures time (in whole seconds)
    timeout,        \* c.options.Timeout
    deadline,       \* seconds left until the socket's read deadline
    tickIn,         \* seconds left until the renewal ticker's next tick
    age,            \* seconds since the worker's last SubscribeCOV request
    renewedAt,      \* age of the subscription when its last renewal was sent
    heard,          \* WhoIs: the datagrams the current call has read, in order
    dsent,          \* WhoIs: the datagrams the current call has written
    arg,            \* a function studied on its own: its name and arguments
    out             \* what that function returned

vars == <<mu, lastID, sock, pending, pc, call, res, phase, lifetime, wmsg,
          werr, cancelled, tickPending, polled, delivered, covClosed, errBuf,
          errClosed, sendOnClosed, devices, dres, nev, timed, timeout,
          deadline, tickIn, age, renewedAt, heard, dsent,
          arg, out>>

netVars == <<sock, pending>>
chanVars == <<polled, delivered, covClosed, errBuf, errClosed, sendOnClosed>>
workerVars == <<phase, lifetime, wmsg, werr>>
discVars == <<devices, dres, heard, dsent>>
timeVars == <<timed, timeout, deadline, tickIn, age, renewedAt>>
pureVars == <<arg, out>>

NoCall == [op |-> "none", invokeID |-> 0]
NoResult == [op |-> "none", invokeID |-> 0, outcome |-> "none", err |-> "nil",
             data |-> << >>, re |-> -1, own |-> FALSE]

\* No function is studied on its own.
NoArg == [f |-> "none"]
NoOut == [f |-> "none"]

InitClient ==
    /\ mu = "free"
    /\ lastID \in InitIDs
    /\ sock = << >>
    /\ pending = {}
    /\ pc = [p \in Procs |-> "idle"]
    /\ call = [p \in Lockers |-> NoCall]
    /\ res = [p \in Lockers |-> NoResult]
    /\ phase = "none"
    /\ lifetime = 0
    /\ wmsg = NoValue
    /\ werr = "nil"
    /\ cancelled = FALSE
    /\ tickPending = FALSE
    /\ polled = << >>
    /\ delivered = << >>
    /\ covClosed = FALSE
    /\ errBuf = << >>
    /\ errClosed = FALSE
    /\ sendOnClosed = FALSE
    /\ devices = << >>
    /\ dres = [outcome |-> "none", devices |-> << >>]
    /\ heard = << >>
    /\ dsent = << >>
    /\ nev = 0

\* Behaviours that do not measure time: the clocks stand still.
Init ==
    /\ InitClient
    /\ arg = NoArg
    /\ out = NoOut
    /\ timed = FALSE
    /\ timeout = DefaultTimeout
    /\ deadline = 0
    /\ tickIn = 0
    /\ age = 0
    /\ renewedAt = 0

\* Behaviours that measure time in whole seconds, for a client configured
\* with one of the request timeouts in Timeouts.
InitTimed ==
    /\ InitClient
    /\ arg = NoArg
    /\ out = NoOut
    /\ timed = TRUE
    /\ timeout \in Timeouts
    /\ deadline = 0
    /\ tickIn = 0
    /\ age = 0
    /\ renewedAt = 0

(***************************************************************************)
(* The invoke-ID allocator and the mutex                                   *)
(***************************************************************************)
\* invokeIDManager.Next: m.lastID++ on a byte, and the new value returned.
NextInvokeID(id) == (id + 1) % 256

\* reSubscribeInterval of handleCOVSubscription, in seconds:
\* time.Duration(float64(lifetime)*0.8) * time.Second truncates 0.8*lifetime
\* to whole seconds, and a result of 0 is replaced by one second.
reSubscribeInterval(lt) ==
    IF (4 * lt) \div 5 <= 0 THEN 1 ELSE (4 * lt) \div 5

\* A poll that keeps the mutex after its read.
UnlockNever(p) == p

\* c.mu.Unlock() after the poll's read: the mutex is free again
Unlock(p) == "free"

\* A Lock that never waits.
CanLockAlways(p) == TRUE

\* c.mu.Lock() succeeds for p only when nobody holds the mutex.
CanLock(p) == mu = "free"

\* The datagram an operation builds for the invoke ID it was given.
Request(op, invokeID) ==
    CASE op = "GetObjectList" -> GetObjectListRequest(invokeID, TheDevice.DeviceID)
      [] op = "GetObjectAllPropertyList" ->
             GetObjectAllPropertyListRequest(invokeID, TheObject)
      [] op = "ReadPropertiesFromMultipleObjects" ->
             ReadPropertiesFromMultipleObjectsRequest(invokeID, <<TheObject>>,
                                                      PROP_PRESENT_VALUE)
      [] op = "ReadSpecificPropertiesFromObject" ->
             ReadSpecificPropertiesFromObjectRequest(invokeID, TheObject,
                                                     ThePropertyIDs)
      [] op = "SubscribeCOV" ->
             SubscribeCOVRequest(invokeID, TheObject, TheProcessID, FALSE, lifetime)

\* What an operation makes of the one datagram it read.
ParseReply(op, data, invokeID) ==
    CASE op = "GetObjectList" -> parseObjectList(data, invokeID)
      [] op = "GetObjectAllPropertyList" -> parseObjectPropertyList(data, invokeID)
      [] op = "ReadPropertiesFromMultipleObjects" ->
             parseReadPropertyMultipleResponse(data, invokeID)
      [] op = "ReadSpecificPropertiesFromObject" ->
             ExtractObject(parseReadPropertyMultipleResponse(data, invokeID),
                           TheObject)
      [] op = "SubscribeCOV" -> parseSimpleAck(data, invokeID)

(***************************************************************************)
(* Request/response exchanges: GetObjectList, GetObjectAllPropertyList,    *)
(* ReadPropertiesFromMultipleObjects, ReadSpecificPropertiesFromObject and *)
(* sendSubscribeCOVRequest all run lock, build and send, set the deadline, *)
(* read one datagram, decode, unlock.                                      *)
(***************************************************************************)
\* A caller enters one of the four public operations.
CallStart(t, op) ==
    /\ pc[t] = "idle"
    /\ nev < MaxEvents
    /\ pc' = [pc EXCEPT ![t] = "lock"]
    /\ call' = [call EXCEPT ![t] = [op |-> op, invokeID |-> 0]]
    /\ nev' = nev + 1
    /\ UNCHANGED <<pureVars, timeVars, mu, lastID, netVars, res, workerVars,
                   cancelled, tickPending, chanVars, discVars>>

\* c.mu.Lock()
Lock(p) ==
    /\ pc[p] = "lock"
    /\ CanLock(p)
    /\ mu' = p
    /\ pc' = [pc EXCEPT ![p] = "send"]
    /\ UNCHANGED <<pureVars, timeVars, lastID, netVars, call, res, workerVars,
                   cancelled, tickPending, chanVars, discVars, nev>>

\* An operation that returns without a deferred unlock.
ReturnedLocked(p, result) ==
    /\ mu' = mu
    /\ res' = [res EXCEPT ![p] = result]
    /\ call' = [call EXCEPT ![p] = NoCall]
    /\ pc' = [pc EXCEPT ![p] = "ret"]

\* The operation returns `result` to its caller: the deferred c.mu.Unlock()
\* runs.
Returned(p, result) ==
    /\ mu' = "free"
    /\ res' = [res EXCEPT ![p] = result]
    /\ call' = [call EXCEPT ![p] = NoCall]
    /\ pc' = [pc EXCEPT ![p] = "ret"]

\* A test that takes every error for nil.
IsNilAlways(r) == TRUE

\* err == nil, of the error an exchange returned
IsNil(r) == r.outcome = "ok"

\* The caller has the result.  A caller of a public operation is back at its
\* call site; handleCOVSubscription tests the error of
\* sendSubscribeCOVRequest: nil, it goes (on) with its loop, otherwise it
\* heads for its exit with "initial SubscribeCOV failed" or
\* "re-subscription failed".
Resume(p) ==
    /\ pc[p] = "ret"
    /\ res' = [res EXCEPT ![p] = NoResult]
    /\ tickIn' = IF timed /\ p = W /\ phase = "initial" /\ IsNil(res[p])
                 THEN reSubscribeInterval(lifetime)
                 ELSE tickIn
    /\ IF p = W
       THEN IF IsNil(res[p])
            THEN /\ pc' = [pc EXCEPT ![p] = "select"]
                 /\ phase' = "running"
                 /\ werr' = werr
            ELSE /\ pc' = [pc EXCEPT ![p] = "errExit"]
                 /\ werr' = IF phase = "initial"
                            THEN "initial SubscribeCOV failed"
                            ELSE "re-subscription failed"
                 /\ phase' = phase
       ELSE /\ pc' = [pc EXCEPT ![p] = "idle"]
            /\ UNCHANGED <<phase, werr>>
    /\ UNCHANGED <<pureVars, timed, timeout, deadline, age, renewedAt, mu,
                   lastID, netVars, call, lifetime, wmsg, cancelled,
                   tickPending, chanVars, discVars, nev>>

Result(p, id, outcome, err, data, re) ==
    [op |-> call[p].op, invokeID |-> id, outcome |-> outcome, err |-> err,
     data |-> data, re |-> re, own |-> FALSE]

\* The exchange that sent them is over: the requests still unanswered, and
\* the replies still unread, now belong to an earlier exchange.
Outlived(requests) == {[r EXCEPT !.stale = TRUE] : r \in requests}

OutlivedReplies(q) ==
    [i \in 1..Len(q) |-> IF q[i].re = -1 THEN q[i]
                         ELSE [q[i] EXCEPT !.stale = TRUE]]

\* The request is built around GInvokeIDManager.Next() and conn.WriteTo
\* accepts it; the read deadline is set.
Send(p) ==
    /\ pc[p] = "send"
    /\ lastID' = NextInvokeID(lastID)
    /\ pending' = pending \cup {[id |-> lastID', op |-> call[p].op,
                               bytes |-> Request(call[p].op, lastID'),
                               stale |-> FALSE]}
    /\ call' = [call EXCEPT ![p].invokeID = lastID']
    /\ pc' = [pc EXCEPT ![p] = "read"]
    /\ deadline' = IF timed THEN timeout ELSE deadline
    /\ IF timed /\ p = W
       THEN /\ age' = 0
            /\ renewedAt' = IF phase = "running" THEN age ELSE renewedAt
       ELSE UNCHANGED <<age, renewedAt>>
    /\ UNCHANGED <<pureVars, timed, timeout, tickIn, mu, sock, res,
                   workerVars, cancelled, tickPending, chanVars, discVars,
                   nev>>

\* conn.WriteTo fails: the operation returns the send error.
SendFails(p) ==
    /\ pc[p] = "send"
    /\ lastID' = NextInvokeID(lastID)
    /\ Returned(p, Result(p, lastID', "send", "failed to send packet", << >>, -1))
    /\ UNCHANGED <<pureVars, timeVars, netVars, workerVars, cancelled,
                   tickPending, chanVars, discVars, nev>>

\* conn.ReadFromUDP returns the oldest waiting datagram, which is decoded.
\* A read that leaves the datagram in the socket.
ConsumeNone(q) == q

\* ReadFromUDP takes the first datagram off the socket's receive buffer.
Consume(q) == Tail(q)

ReadDatagram(p) ==
    /\ pc[p] = "read"
    /\ sock # << >>
    /\ LET d == Head(sock)
           Decoded(r) ==
               Returned(p, [Result(p, call[p].invokeID,
                                   IF r.ok THEN "ok" ELSE "protocol", r.err,
                                   d.bytes, d.re)
                               EXCEPT !.own = d.re # -1 /\ ~d.stale])
       IN  Decoded(ParseReply(call[p].op, d.bytes, call[p].invokeID))
    /\ sock' = OutlivedReplies(Consume(sock))
    /\ pending' = Outlived(pending)
    /\ UNCHANGED <<pureVars, timeVars, lastID, workerVars, cancelled,
                   tickPending, chanVars, discVars, nev>>

\* A read without a deadline: with nothing to read it never returns.
ReadBlocks(p) ==
    /\ pc[p] = "read"
    /\ FALSE
    /\ UNCHANGED vars

\* The read deadline passes with nothing to read.
ReadTimeout(p) ==
    /\ pc[p] = "read"
    /\ sock = << >>
    /\ timed => deadline = 0
    /\ Returned(p, Result(p, call[p].invokeID, "timeout",
                          "timeout waiting for response", << >>, -1))
    /\ pending' = Outlived(pending)
    /\ UNCHANGED <<pureVars, timeVars, lastID, sock, workerVars, cancelled,
                   tickPending, chanVars, discVars, nev>>

\* conn.ReadFromUDP fails with an error that is not a timeout.
ReadError(p) ==
    /\ pc[p] = "read"
    /\ Returned(p, Result(p, call[p].invokeID, "transport",
                          "failed to read from UDP", << >>, -1))
    /\ sock' = OutlivedReplies(sock)
    /\ pending' = Outlived(pending)
    /\ UNCHANGED <<pureVars, timeVars, lastID, workerVars, cancelled,
                   tickPending, chanVars, discVars, nev>>

(***************************************************************************)
(* The subscription worker: the goroutine of SubscribeCOV and              *)
(* handleCOVSubscription.                                                  *)
(***************************************************************************)
\* SubscribeCOV makes the two channels and starts the goroutine, which
\* begins with the initial sendSubscribeCOVRequest.
SubscribeCOV(lt) ==
    /\ pc[W] = "idle"
    /\ phase = "none"
    /\ nev < MaxEvents
    /\ phase' = "initial"
    /\ lifetime' = lt
    /\ pc' = [pc EXCEPT ![W] = "lock"]
    /\ call' = [call EXCEPT ![W] = [op |-> "SubscribeCOV", invokeID |-> 0]]
    /\ nev' = nev + 1
    /\ UNCHANGED <<pureVars, timeVars, mu, lastID, netVars, res, wmsg, werr,
                   cancelled, tickPending, chanVars, discVars>>

\* A goroutine that defers only close(errChan).
DeferredErrOnly == [cov |-> FALSE, err |-> TRUE]

\* The goroutine's deferred calls: close(errChan), then close(covChan).
Deferred == [cov |-> TRUE, err |-> TRUE]

\* The goroutine returns: ticker.Stop() and the deferred closes run.
WorkerReturns ==
    /\ pc' = [pc EXCEPT ![W] = "done"]
    /\ phase' = "done"
    /\ tickPending' = FALSE
    /\ covClosed' = Deferred.cov
    /\ errClosed' = Deferred.err

\* errChan <- err
ErrChanSend(buf, e) == Append(buf, e)

\* A channel that hands over the newest value ahead of the older ones.
CovChanSendFirst(received, n) == <<n>> \o received

\* covChan <- notification, taken by the receiving consumer
CovChanSend(received, n) == Append(received, n)

\* errChan <- fmt.Errorf(...); return.  The send waits for room in errChan.
ErrExit ==
    /\ pc[W] = "errExit"
    /\ Len(errBuf) < ErrChanCap
    /\ errBuf' = ErrChanSend(errBuf, werr)
    /\ sendOnClosed' = (sendOnClosed \/ errClosed)
    /\ WorkerReturns
    /\ UNCHANGED <<pureVars, timeVars, mu, lastID, netVars, call, res,
                   lifetime, wmsg, werr, cancelled, polled, delivered,
                   discVars, nev>>

\* select: case <-ctx.Done(): return
SelectDone ==
    /\ pc[W] = "select"
    /\ cancelled
    /\ WorkerReturns
    /\ UNCHANGED <<pureVars, timeVars, mu, lastID, netVars, call, res,
                   lifetime, wmsg, werr, cancelled, polled, delivered, errBuf,
                   sendOnClosed, discVars, nev>>

\* select: case <-ticker.C: the renewal sendSubscribeCOVRequest starts.
SelectTick ==
    /\ pc[W] = "select"
    /\ tickPending
    /\ tickPending' = FALSE
    /\ pc' = [pc EXCEPT ![W] = "lock"]
    /\ call' = [call EXCEPT ![W] = [op |-> "SubscribeCOV", invokeID |-> 0]]
    /\ UNCHANGED <<pureVars, timeVars, mu, lastID, netVars, res, workerVars,
                   cancelled, chanVars, discVars, nev>>

\* select: case <-time.After(100ms): taken when neither other case became
\* ready first.
SelectPoll ==
    /\ pc[W] = "select"
    /\ ~cancelled
    /\ ~tickPending
    /\ pc' = [pc EXCEPT ![W] = "pollLock"]
    /\ UNCHANGED <<pureVars, timeVars, mu, lastID, netVars, call, res,
                   workerVars, cancelled, tickPending, chanVars, discVars,
                   nev>>

\* c.mu.Lock(); c.conn.SetReadDeadline(now + c.options.Timeout)
PollLock ==
    /\ pc[W] = "pollLock"
    /\ CanLock(W)
    /\ mu' = W
    /\ pc' = [pc EXCEPT ![W] = "pollRead"]
    /\ deadline' = IF timed THEN timeout ELSE deadline
    /\ UNCHANGED <<pureVars, timed, timeout, tickIn, age, renewedAt, lastID,
                   netVars, call, res, workerVars, cancelled, tickPending,
                   chanVars, discVars, nev>>

\* ReadFromUDP returns a datagram; c.mu.Unlock(); parseCOVNotification.
PollDatagram ==
    /\ pc[W] = "pollRead"
    /\ sock # << >>
    /\ mu' = Unlock(W)
    /\ sock' = Tail(sock)
    /\ LET d == Head(sock)
           n == NotificationOf[d.bytes]
       IN  /\ res' = [res EXCEPT ![W] =
                         [op |-> "poll", invokeID |-> 0,
                          outcome |-> IF n.ok THEN "ok" ELSE "protocol",
                          err |-> IF n.ok THEN "nil" ELSE "parse",
                          data |-> d.bytes, re |-> d.re, own |-> FALSE]]
           /\ wmsg' = IF n.ok THEN n.val ELSE wmsg
           /\ polled' = IF n.ok THEN Append(polled, n.val) ELSE polled
           /\ werr' = IF n.ok THEN werr ELSE "error parsing COV notification"
           /\ pc' = [pc EXCEPT ![W] = IF n.ok THEN "sendCov" ELSE "sendErr"]
    /\ UNCHANGED <<pureVars, timeVars, lastID, pending, call, phase, lifetime,
                   cancelled, tickPending, delivered, covClosed, errBuf,
                   errClosed, sendOnClosed, discVars, nev>>

\* ReadFromUDP times out; c.mu.Unlock(); continue.
PollTimeout ==
    /\ pc[W] = "pollRead"
    /\ sock = << >>
    /\ timed => deadline = 0
    /\ mu' = Unlock(W)
    /\ pc' = [pc EXCEPT ![W] = "select"]
    /\ UNCHANGED <<pureVars, timeVars, lastID, netVars, call, res, workerVars,
                   cancelled, tickPending, chanVars, discVars, nev>>

\* ReadFromUDP fails otherwise; c.mu.Unlock(); the worker heads for its exit.
PollError ==
    /\ pc[W] = "pollRead"
    /\ mu' = Unlock(W)
    /\ werr' = "error reading COV notification"
    /\ pc' = [pc EXCEPT ![W] = "errExit"]
    /\ UNCHANGED <<pureVars, timeVars, lastID, netVars, call, res, phase,
                   lifetime, wmsg, cancelled, tickPending, chanVars, discVars,
                   nev>>

\* covChan <- notification: covChan is unbuffered, so the send completes
\* only with a consumer receiving.
DeliverCov ==
    /\ pc[W] = "sendCov"
    /\ delivered' = CovChanSend(delivered, wmsg)
    /\ sendOnClosed' = (sendOnClosed \/ covClosed)
    /\ wmsg' = NoValue
    /\ res' = [res EXCEPT ![W] = NoResult]
    /\ pc' = [pc EXCEPT ![W] = "select"]
    /\ UNCHANGED <<pureVars, timeVars, mu, lastID, netVars, call, phase,
                   lifetime, werr, cancelled, tickPending, polled, covClosed,
                   errBuf, errClosed, discVars, nev>>

\* errChan <- parse error; the loop continues.
SendErr ==
    /\ pc[W] = "sendErr"
    /\ Len(errBuf) < ErrChanCap
    /\ errBuf' = ErrChanSend(errBuf, werr)
    /\ sendOnClosed' = (sendOnClosed \/ errClosed)
    /\ res' = [res EXCEPT ![W] = NoResult]
    /\ pc' = [pc EXCEPT ![W] = "select"]
    /\ UNCHANGED <<pureVars, timeVars, mu, lastID, netVars, call, workerVars,
                   cancelled, tickPending, polled, delivered, covClosed,
                   errClosed, discVars, nev>>

\* The renewal ticker of handleCOVSubscription puts a tick into ticker.C
\* (capacity 1; a tick finding it full is dropped).
TickerFire ==
    /\ phase = "running"
    /\ nev < MaxEvents
    /\ IF timed THEN tickIn = 0 ELSE ~tickPending
    /\ tickPending' = TRUE
    /\ tickIn' = IF timed THEN reSubscribeInterval(lifetime) ELSE tickIn
    /\ nev' = nev + 1
    /\ UNCHANGED <<pureVars, timed, timeout, deadline, age, renewedAt, mu,
                   lastID, netVars, pc, call, res, workerVars, cancelled,
                   chanVars, discVars>>

(***************************************************************************)
(* The consumer of the two channels, as in cmd/examples/subscribe.         *)
(***************************************************************************)
\* err := <-errChan
RecvErr ==
    /\ errBuf # << >>
    /\ errBuf' = Tail(errBuf)
    /\ UNCHANGED <<pureVars, timeVars, mu, lastID, netVars, pc, call, res,
                   workerVars, cancelled, tickPending, polled, delivered,
                   covClosed, errClosed, sendOnClosed, discVars, nev>>

\* cancel()
Cancel ==
    /\ ~cancelled
    /\ cancelled' = TRUE
    /\ UNCHANGED <<pureVars, timeVars, mu, lastID, netVars, pc, call, res,
                   workerVars, tickPending, chanVars, discVars, nev>>

(***************************************************************************)
(* The network                                                             *)
(***************************************************************************)
\* The device's answer to a request arrives, at any time after the request.
DeviceReply(r, d) ==
    /\ r \in pending
    /\ d \in DeviceReplies(r.bytes)
    /\ Len(sock) < MaxQueue
    /\ sock' = Append(sock, [bytes |-> d, re |-> r.id, stale |-> r.stale])
    /\ pending' = pending \ {r}
    /\ UNCHANGED <<pureVars, timeVars, mu, lastID, pc, call, res, workerVars,
                   cancelled, tickPending, chanVars, discVars, nev>>

\* A datagram nobody asked for arrives.
Arrive(d) ==
    /\ nev < MaxEvents
    /\ Len(sock) < MaxQueue
    /\ sock' = Append(sock, [bytes |-> d, re |-> -1, stale |-> FALSE])
    /\ nev' = nev + 1
    /\ UNCHANGED <<pureVars, timeVars, mu, lastID, pending, pc, call, res,
                   workerVars, cancelled, tickPending, chanVars, discVars>>

(***************************************************************************)
(* Discovery: WhoIs on the connection GetConn hands out.  It takes no lock.*)
(***************************************************************************)
\* The Who-Is is sent and the read deadline set.
WhoIsSend ==
    /\ pc[D] = "idle"
    /\ nev < MaxEvents
    /\ nev' = nev + 1
    /\ devices' = << >>
    /\ heard' = << >>
    /\ dsent' = <<WhoIsRequest>>
    /\ dres' = [outcome |-> "none", devices |-> << >>]
    /\ deadline' = IF timed THEN timeout ELSE deadline
    /\ pc' = [pc EXCEPT ![D] = "read"]
    /\ UNCHANGED <<pureVars, timed, timeout, tickIn, age, renewedAt, mu,
                   lastID, netVars, call, res, workerVars, cancelled,
                   tickPending, chanVars>>

\* conn.WriteTo fails: nil and the send error are returned.
WhoIsSendFails ==
    /\ pc[D] = "idle"
    /\ nev < MaxEvents
    /\ nev' = nev + 1
    /\ devices' = << >>
    /\ heard' = << >>
    /\ dsent' = << >>
    /\ dres' = [outcome |-> "send", devices |-> << >>]
    /\ UNCHANGED <<pureVars, timeVars, mu, lastID, netVars, pc, call, res,
                   workerVars, cancelled, tickPending, chanVars>>

\* A list that takes the newest device at its head.
CollectFirst(devs, r) == IF r.ok THEN <<r.val>> \o devs ELSE devs

\* if err == nil { devices = append(devices, device) }
Collect(devs, r) == IF r.ok THEN Append(devs, r.val) ELSE devs

\* ReadFromUDP returns a datagram: kept if it parses as I-Am, else dropped.
WhoIsDatagram ==
    /\ pc[D] = "read"
    /\ sock # << >>
    /\ sock' = Tail(sock)
    /\ heard' = Append(heard, Head(sock).bytes)
    /\ devices' = Collect(devices, parseIAm(Head(sock).bytes, "device"))
    /\ UNCHANGED <<pureVars, timeVars, mu, lastID, pending, pc, call, res,
                   workerVars, cancelled, tickPending, chanVars, dres, dsent,
                   nev>>

\* The deadline passes: the devices collected are returned.
WhoIsTimeout ==
    /\ pc[D] = "read"
    /\ timed => deadline = 0
    /\ dres' = [outcome |-> "ok", devices |-> devices]
    /\ pc' = [pc EXCEPT ![D] = "idle"]
    /\ UNCHANGED <<pureVars, timeVars, mu, lastID, netVars, call, res,
                   workerVars, cancelled, tickPending, chanVars, devices,
                   heard, dsent, nev>>

\* A WhoIs that returns what it has collected along with the error.
WhoIsErrorKeeps ==
    /\ pc[D] = "read"
    /\ dres' = [outcome |-> "transport", devices |-> devices]
    /\ pc' = [pc EXCEPT ![D] = "idle"]
    /\ UNCHANGED <<pureVars, timeVars, mu, lastID, netVars, call, res,
                   workerVars, cancelled, tickPending, chanVars, devices,
                   heard, dsent, nev>>

\* ReadFromUDP fails otherwise: nil and the error are returned.
WhoIsError ==
    /\ pc[D] = "read"
    /\ dres' = [outcome |-> "transport", devices |-> << >>]
    /\ pc' = [pc EXCEPT ![D] = "idle"]
    /\ UNCHANGED <<pureVars, timeVars, mu, lastID, netVars, call, res,
                   workerVars, cancelled, tickPending, chanVars, devices,
                   heard, dsent, nev>>

(***************************************************************************)
(* Time                                                                    *)
(***************************************************************************)
\* The worker is waiting for something other than the processor: a datagram
\* or the read deadline, the consumer, room in errChan, or the mutex.  The
\* select's 100 ms wait is shorter than the clock's second and counts as none.
WorkerBlocked ==
    \/ pc[W] \in {"read", "pollRead"} /\ sock = << >> /\ deadline > 0
    \/ pc[W] = "sendCov"
    \/ pc[W] \in {"errExit", "sendErr"} /\ Len(errBuf) >= ErrChanCap
    \/ pc[W] \in {"lock", "pollLock"} /\ ~CanLock(W)

\* One second passes.  It does not while the worker has a step to take, nor
\* past a tick the ticker has yet to deliver.
Advance ==
    /\ timed
    /\ WorkerBlocked
    /\ age < MaxAge
    /\ phase = "running" => tickIn > 0
    /\ age' = age + 1
    /\ deadline' = IF deadline > 0 THEN deadline - 1 ELSE 0
    /\ tickIn' = IF phase = "running" THEN tickIn - 1 ELSE tickIn
    /\ UNCHANGED <<pureVars, timed, timeout, renewedAt, mu, lastID, netVars,
                   pc, call, res, workerVars, cancelled, tickPending,
                   chanVars, discVars, nev>>

(***************************************************************************)
(* Specifications                                                          *)
(***************************************************************************)
Next ==
    \/ \E t \in Callers, op \in Ops : CallStart(t, op)
    \/ \E p \in Lockers : Lock(p)
    \/ \E p \in Lockers : Send(p)
    \/ \E p \in Lockers : SendFails(p)
    \/ \E p \in Lockers : ReadDatagram(p)
    \/ \E p \in Lockers : ReadTimeout(p)
    \/ \E p \in Lockers : ReadError(p)
    \/ \E p \in Lockers : Resume(p)
    \/ \E lt \in Lifetimes : SubscribeCOV(lt)
    \/ ErrExit
    \/ SelectDone
    \/ SelectTick
    \/ SelectPoll
    \/ PollLock
    \/ PollDatagram
    \/ PollTimeout
    \/ PollError
    \/ DeliverCov
    \/ SendErr
    \/ TickerFire
    \/ RecvErr
    \/ Cancel
    \/ \E r \in pending : \E d \in DeviceReplies(r.bytes) : DeviceReply(r, d)
    \/ \E d \in Unsolicited : Arrive(d)
    \/ WhoIsSend
    \/ WhoIsSendFails
    \/ WhoIsDatagram
    \/ WhoIsTimeout
    \/ WhoIsError

Spec == Init /\ [][Next]_vars

\* One subscription on its own: the worker, its consumer, the device and the
\* network.
WorkerNext ==
    \/ \E lt \in Lifetimes : SubscribeCOV(lt)
    \/ Lock(W)
    \/ Send(W)
    \/ SendFails(W)
    \/ ReadDatagram(W)
    \/ ReadTimeout(W)
    \/ ReadError(W)
    \/ Resume(W)
    \/ ErrExit
    \/ SelectDone
    \/ SelectTick
    \/ SelectPoll
    \/ PollLock
    \/ PollDatagram
    \/ PollTimeout
    \/ PollError
    \/ SendErr
    \/ TickerFire

ConsumerNext ==
    \/ DeliverCov
    \/ RecvErr
    \/ Cancel

NetworkNext ==
    \/ \E r \in pending : \E d \in DeviceReplies(r.bytes) : DeviceReply(r, d)
    \/ \E d \in Unsolicited : Arrive(d)

\* The goroutine is scheduled fairly: whenever it has a step of its own to
\* take it takes one.  Nothing is assumed of the consumer (DeliverCov needs
\* it to receive), of the device or of the network.
FairSpec ==
    /\ Init
    /\ [][WorkerNext \/ ConsumerNext \/ NetworkNext]_vars
    /\ WF_vars(WorkerNext)

\* What a caller of a request/response operation does, GetObjectList
\* standing for the four of them.
CallerNext ==
    \/ \E t \in Callers : CallStart(t, "GetObjectList")
    \/ \E t \in Callers : Lock(t)
    \/ \E t \in Callers : Send(t)
    \/ \E t \in Callers : SendFails(t)
    \/ \E t \in Callers : ReadDatagram(t)
    \/ \E t \in Callers : ReadTimeout(t)
    \/ \E t \in Callers : ReadError(t)
    \/ \E t \in Callers : Resume(t)

\* A subscription and the callers of the same client.  The goroutine is
\* scheduled fairly, and so is sync.Mutex: a goroutine that finds the mutex
\* taken again and again is handed it in the end (its starvation mode).
\* Nothing is assumed of the consumer, of the device or of the network.
MutexSpec ==
    /\ Init
    /\ [][WorkerNext \/ ConsumerNext \/ NetworkNext \/ CallerNext]_vars
    /\ WF_vars(WorkerNext)
    /\ \A t \in Callers : SF_vars(Lock(t))

\* A caller that holds the mutex goes on with its exchange: it writes its
\* request (or fails to), and its read of an empty socket times out.
Exchange(t) == Send(t) \/ SendFails(t) \/ ReadTimeout(t)

\* WF_vars(ReadDatagram(t)), with ENABLED <<ReadDatagram(t)>>_vars written
\* out as the guard of ReadDatagram: a read that has a datagram to return
\* returns it.
ReadFair(t) ==
    \/ []<>(~(pc[t] = "read" /\ sock # << >>))
    \/ []<><<ReadDatagram(t)>>_vars

\* The same, with the callers scheduled fairly as well: a caller holding
\* the mutex writes its request (or fails to), and its read returns a
\* datagram or times out.
CallSpec ==
    /\ Init
    /\ [][WorkerNext \/ ConsumerNext \/ NetworkNext \/ CallerNext]_vars
    /\ WF_vars(WorkerNext)
    /\ \A t \in Callers : SF_vars(Lock(t))
    /\ \A t \in Callers : WF_vars(Exchange(t))
    /\ \A t \in Callers : ReadFair(t)

\* One subscription on its own, with time measured.
TimedNext ==
    \/ \E lt \in TimedLifetimes : SubscribeCOV(lt)
    \/ Lock(W)
    \/ Send(W)
    \/ ReadDatagram(W)
    \/ ReadTimeout(W)
    \/ Resume(W)
    \/ ErrExit
    \/ SelectTick
    \/ SelectPoll
    \/ PollLock
    \/ PollDatagram
    \/ PollTimeout
    \/ SendErr
    \/ DeliverCov
    \/ TickerFire
    \/ \E r \in pending : \E d \in DeviceReplies(r.bytes) : DeviceReply(r, d)
    \/ \E d \in Unsolicited : Arrive(d)
    \/ Advance

SpecTimed == InitTimed /\ [][TimedNext]_vars

\* A long-lived caller: it calls GetObjectList again and again, through the
\* wrap of the invoke-ID counter.
CallAgain(t) ==
    /\ pc[t] = "idle"
    /\ pc' = [pc EXCEPT ![t] = "lock"]
    /\ call' = [call EXCEPT ![t] = [op |-> "GetObjectList", invokeID |-> 0]]
    /\ UNCHANGED <<pureVars, timeVars, mu, lastID, netVars, res, workerVars,
                   cancelled, tickPending, chanVars, discVars, nev>>

\* The exchange with invoke ID 1 times out: its reply is late.
LateTimeout(t) ==
    /\ call[t].invokeID = 1
    /\ \A r \in pending : r.id = 1 /\ ~r.stale
    /\ ReadTimeout(t)

\* The device's reply to the request of the exchange in progress.
ReplyInTime(r, d) ==
    /\ ~r.stale
    /\ DeviceReply(r, d)

\* The late reply reaches the socket only after 256 further requests, while
\* a request with the same invoke ID is waiting for its own reply.
LateReply(r, d) ==
    /\ r.stale
    /\ \E q \in pending : ~q.stale /\ q.id = r.id
    /\ DeviceReply(r, d)

WrapNext ==
    \/ \E t \in Callers : CallAgain(t)
    \/ \E t \in Callers : Lock(t)
    \/ \E t \in Callers : Send(t)
    \/ \E t \in Callers : ReadDatagram(t)
    \/ \E t \in Callers : LateTimeout(t)
    \/ \E t \in Callers : Resume(t)
    \/ \E r \in pending : \E d \in DeviceReplies(r.bytes) : ReplyInTime(r, d)
    \/ \E r \in pending : \E d \in DeviceReplies(r.bytes) : LateReply(r, d)

\* One client used for longer than 256 exchanges, one of whose replies is
\* late.
WrapSpec == Init /\ [][WrapNext]_vars

(***************************************************************************)
(* Discovery on its own: WhoIs on a socket that devices of several kinds   *)
(* answer.                                                                 *)
(***************************************************************************)
\* An I-Am announcing the object (type, instance), vendor 42.
IAm(type, instance) ==
    Reply(<<APDU_UNCONFIRMED_REQUEST, SERVICE_UNCONFIRMED_I_AM, 196>>
          \o PackObjectId(type, instance)
          \o <<34, 5, 196, 145, 0, 34, 0, 42>>)

\* What the socket can receive while WhoIs listens: the I-Am of two devices,
\* an I-Am whose object identifier names analog input 5, an I-Am cut after
\* its object identifier, and a datagram that is no I-Am.
DiscoveryDatagrams ==
    { IAmDatagram,
      IAm(OBJECT_DEVICE, 77),
      IAm(OBJECT_ANALOG_INPUT, 5),
      SubSeq(IAmDatagram, 1, 13),
      ShortSimpleAck }

\* Datagrams one behaviour of discovery brings to the socket.
MaxHeard == 3

\* A datagram reaches the socket.
DiscoveryArrive(d) ==
    /\ Len(sock) < MaxQueue
    /\ Len(heard) + Len(sock) < MaxHeard
    /\ sock' = Append(sock, [bytes |-> d, re |-> -1, stale |-> FALSE])
    /\ UNCHANGED <<pureVars, timeVars, mu, lastID, pending, pc, call, res,
                   workerVars, cancelled, tickPending, chanVars, discVars,
                   nev>>

DiscoveryNext ==
    \/ WhoIsSend
    \/ WhoIsSendFails
    \/ WhoIsDatagram
    \/ WhoIsTimeout
    \/ WhoIsError
    \/ \E d \in DiscoveryDatagrams : DiscoveryArrive(d)

DiscoverySpec == Init /\ [][DiscoveryNext]_vars

(***************************************************************************)
(* Functions studied on their own.  The client stands still; arg holds the *)
(* function's name and arguments, out what it returned.                    *)
(***************************************************************************)
\* The client's state apart from the invoke-ID allocator.
restVars == <<timeVars, mu, netVars, pc, call, res, workerVars, cancelled,
              tickPending, chanVars, discVars, nev>>

\* A client nobody uses.
InitStill ==
    /\ InitClient
    /\ timed = FALSE
    /\ timeout = DefaultTimeout
    /\ deadline = 0
    /\ tickIn = 0
    /\ age = 0
    /\ renewedAt = 0

\* GInvokeIDManager used by several goroutines at once.  arg.mu is m.mu,
\* arg.at where each goroutine is in Next, arg.issued the values returned so
\* far, in the order of the returns.
MaxCalls == 260

InitAlloc ==
    /\ InitStill
    /\ lastID = 0
    /\ arg = [f |-> "Next", mu |-> "free", at |-> [p \in Lockers |-> "idle"],
              started |-> 0, issued |-> << >>]
    /\ out = NoOut

\* A goroutine calls GInvokeIDManager.Next().
NextCall(p) ==
    /\ arg.at[p] = "idle"
    /\ arg.started < MaxCalls
    /\ arg' = [arg EXCEPT !.at[p] = "lock", !.started = @ + 1]
    /\ UNCHANGED <<out, lastID, restVars>>

\* An m.mu.Lock() that never waits.
NextCanLockAlways(p) == TRUE

\* m.mu.Lock() succeeds for p only when nobody holds m.mu.
NextCanLock(p) == arg.mu = "free"

\* m.mu.Lock()
NextLock(p) ==
    /\ arg.at[p] = "lock"
    /\ NextCanLock(p)
    /\ arg' = [arg EXCEPT !.at[p] = "inc", !.mu = p]
    /\ UNCHANGED <<out, lastID, restVars>>

\* m.lastID++
NextIncrement(p) ==
    /\ arg.at[p] = "inc"
    /\ lastID' = NextInvokeID(lastID)
    /\ arg' = [arg EXCEPT !.at[p] = "ret"]
    /\ UNCHANGED <<out, restVars>>

\* return m.lastID, and the deferred m.mu.Unlock()
NextReturn(p) ==
    /\ arg.at[p] = "ret"
    /\ out' = [f |-> "Next", who |-> p, value |-> lastID]
    /\ arg' = [arg EXCEPT !.at[p] = "idle", !.mu = "free",
                          !.issued = Append(@, lastID)]
    /\ UNCHANGED <<lastID, restVars>>

AllocNext ==
    \/ \E p \in Lockers : NextCall(p)
    \/ \E p \in Lockers : NextLock(p)
    \/ \E p \in Lockers : NextIncrement(p)
    \/ \E p \in Lockers : NextReturn(p)

AllocSpec == InitAlloc /\ [][AllocNext]_vars

\* The encoders and decoders on their own: arg is a call, out what it gave.
\* Length of the longest object or property list handed to an encoder.
MaxList == 7281

ListLengths == {0, 1, 2, MaxList - 1, MaxList}

Encoders ==
    {"WhoIs", "GetObjectList", "GetObjectAllPropertyList",
     "ReadPropertiesFromMultipleObjects", "ReadSpecificPropertiesFromObject",
     "SubscribeCOV"}

\* Calls of the operations that write a datagram: id is the invoke ID the
\* allocator hands out, n the length of the object or property list.
EncoderCalls == [f : Encoders, id : {1, 255}, n : ListLengths]

\* buffer.Bytes() as the operation hands it to WriteTo
Written(a) ==
    CASE a.f = "WhoIs" -> WhoIsRequest
      [] a.f = "GetObjectList" ->
             GetObjectListRequest(a.id, TheDevice.DeviceID)
      [] a.f = "GetObjectAllPropertyList" ->
             GetObjectAllPropertyListRequest(a.id, TheObject)
      [] a.f = "ReadPropertiesFromMultipleObjects" ->
             ReadPropertiesFromMultipleObjectsRequest(a.id,
                 [i \in 1..a.n |-> TheObject], PROP_PRESENT_VALUE)
      [] a.f = "ReadSpecificPropertiesFromObject" ->
             ReadSpecificPropertiesFromObjectRequest(a.id, TheObject,
                 [i \in 1..a.n |-> PROP_PRESENT_VALUE])
      [] a.f = "SubscribeCOV" ->
             SubscribeCOVRequest(a.id, TheObject, TheProcessID, FALSE, 60)

\* The operation builds its datagram: out keeps the number of octets handed
\* to WriteTo and the BVLC length field (octets 3 and 4) among them.
Encode ==
    /\ arg.f \in Encoders
    /\ out = NoOut
    /\ LET Measured(d) == out' = [f |-> arg.f, octets |-> Len(d),
                                  length |-> d[3] * 256 + d[4]]
       IN  Measured(Written(arg))
    /\ UNCHANGED <<arg, lastID, restVars>>

Decoders ==
    {"parseIAm", "parseObjectList", "parseObjectPropertyList",
     "parseReadPropertyMultipleResponse", "parseCOVNotification",
     "parseSimpleAck"}

\* Datagrams a device sends, and the same with another BVLC type octet.
ReplyDatagrams ==
    { [d EXCEPT ![1] = t] :
        d \in {IAmDatagram, ObjectListAck(1), ReadPropertyMultipleAck(1),
               SimpleAck(1, SERVICE_CONFIRMED_SUBSCRIBE_COV),
               EncodeNotification(SERVICE_UNCONFIRMED_COV_NOTIFICATION,
                                  NotificationA)},
        t \in {BVLC_TYPE_BACNET_IP, 0, 130, 255} }

\* Calls of the reply decoders: data is the datagram read, id the invoke ID
\* the caller expects.
DecoderCalls == [f : Decoders, data : ReplyDatagrams, id : {1, 2}]

\* err == nil, of what the decoder returns for the datagram
Accepts(a) ==
    CASE a.f = "parseIAm" -> parseIAm(a.data, "device").ok
      [] a.f = "parseObjectList" -> parseObjectList(a.data, a.id).ok
      [] a.f = "parseObjectPropertyList" ->
             parseObjectPropertyList(a.data, a.id).ok
      [] a.f = "parseReadPropertyMultipleResponse" ->
             parseReadPropertyMultipleResponse(a.data, a.id).ok
      [] a.f = "parseCOVNotification" -> parseCOVNotification(a.data).ok
      [] a.f = "parseSimpleAck" -> parseSimpleAck(a.data, a.id).ok

\* A datagram read from the socket is handed to a reply decoder.
Decode ==
    /\ arg.f \in Decoders
    /\ out = NoOut
    /\ out' = [f |-> arg.f, ok |-> Accepts(arg)]
    /\ UNCHANGED <<arg, lastID, restVars>>

\* Object identifiers: every object type of ten bits, with instance numbers
\* at the octet boundaries of the 22 bits.
ObjectTypes == 0..1023

Instances == {0, 1, 255, 256, 65535, 65536, 4194302, 4194303}

ObjectIds == [f : {"ObjectId"}, type : ObjectTypes, instance : Instances]

\* The identifier is written as the request builders write it and what was
\* written is read back as the decoders read it.
PackUnpack ==
    /\ arg.f = "ObjectId"
    /\ out = NoOut
    /\ LET Read(w) == out' = [f |-> "ObjectId", word |-> w,
                              back |-> UnpackObjectId(w)]
       IN  Read(PackObjectId(arg.type, arg.instance))
    /\ UNCHANGED <<arg, lastID, restVars>>

\* Application values as a device encodes them, with what they decode to:
\* the Real 42.0 and the Unsigned 7.
ValueA == [bytes |-> <<68, 66, 40, 0, 0>>,
           val |-> [k |-> "float32", w |-> <<66, 40, 0, 0>>]]

ValueB == [bytes |-> <<33, 7>>, val |-> [k |-> "uint32", w |-> <<0, 0, 0, 7>>]]

RECURSIVE Concat(_)
Concat(seqs) == IF seqs = << >> THEN << >> ELSE Head(seqs) \o Concat(Tail(seqs))

\* A property record of a read-access result: 29 id 4E values 4F.
EncodeRecord(p) ==
    <<41, p.id, 78>>
        \o Concat([i \in 1..Len(p.values) |-> p.values[i].bytes]) \o <<79>>

\* A read-access result: 0C object 1E records 1F.
EncodeResult(r) ==
    <<12>> \o PackObjectId(r.object.Type, r.object.Instance) \o <<30>>
        \o Concat([i \in 1..Len(r.props) |-> EncodeRecord(r.props[i])])
        \o <<31>>

\* The ReadPropertyMultiple-ACK a device sends for the results of body.
AckOf(id, body) ==
    Reply(<<APDU_COMPLEX_ACK, id, SERVICE_CONFIRMED_READ_PROPERTY_MULTIPLE>>
          \o Concat([i \in 1..Len(body) |-> EncodeResult(body[i])]))

\* ACK bodies of one or two results for analog inputs 3 and 4, each of up
\* to two records for properties 77 and 85, each of no, one or two values.
AckRecords == [id : {77, 85}, values : {<< >>, <<ValueA>>, <<ValueA, ValueB>>}]

AckRecordLists ==
    {<< >>} \cup {<<p>> : p \in AckRecords}
        \cup {<<p, q>> : p \in AckRecords, q \in AckRecords}

AckResults ==
    [object : {TheObject, [Type |-> OBJECT_ANALOG_INPUT, Instance |-> 4]},
     props : AckRecordLists]

AckBodies ==
    {<<r>> : r \in AckResults} \cup {<<r, t>> : r \in AckResults, t \in AckResults}

AckParsers == {"parseObjectPropertyList", "parseReadPropertyMultipleResponse"}

AckCalls == [f : {"Ack"}, parser : AckParsers, body : AckBodies, id : {1}]

\* The ACK read from the socket is handed to the operation's decoder.
DecodeAck ==
    /\ arg.f = "Ack"
    /\ out = NoOut
    /\ LET Decoded(r) == out' = [f |-> "Ack", ok |-> r.ok, val |-> r.val]
       IN  IF arg.parser = "parseObjectPropertyList"
           THEN Decoded(parseObjectPropertyList(AckOf(arg.id, arg.body),
                                                arg.id))
           ELSE Decoded(parseReadPropertyMultipleResponse(
                            AckOf(arg.id, arg.body), arg.id))
    /\ UNCHANGED <<arg, lastID, restVars>>

\* The ReadProperty-ACK a device sends for its object list.
ObjectListAckOf(id, objects) ==
    Reply(<<APDU_COMPLEX_ACK, id, SERVICE_CONFIRMED_READ_PROPERTY, 12>>
          \o PackObjectId(OBJECT_DEVICE, TheDevice.DeviceID)
          \o <<25, PROP_OBJECT_LIST, 62>>
          \o Concat([i \in 1..Len(objects) |->
                        <<196>> \o PackObjectId(objects[i].Type,
                                                objects[i].Instance)])
          \o <<63>>)

\* Object lists of no, one and two objects.
ObjectLists ==
    {<< >>, <<TheObject>>,
     <<TheObject, [Type |-> OBJECT_DEVICE, Instance |-> TheDevice.DeviceID]>>}

\* An object-list ACK of which the first cut octets have arrived.
ObjectListCalls ==
    {[f |-> "ObjectList", objects |-> os, cut |-> n, id |-> 1] :
        os \in ObjectLists, n \in 0..30}

\* GetObjectList hands the datagram it read to parseObjectList.
DecodeObjectList ==
    /\ arg.f = "ObjectList"
    /\ out = NoOut
    /\ LET whole == ObjectListAckOf(arg.id, arg.objects)
           data == SubSeq(whole, 1, IF arg.cut < Len(whole) THEN arg.cut
                                    ELSE Len(whole))
           Decoded(r) == out' = [f |-> "ObjectList", ok |-> r.ok,
                                 val |-> r.val, whole |-> data = whole]
       IN  Decoded(parseObjectList(data, arg.id))
    /\ UNCHANGED <<arg, lastID, restVars>>

\* Arguments of sendSubscribeCOVRequest: process identifiers within and
\* beyond one octet, objects up to the largest identifier.
SubscribeCalls ==
    [f : {"sendSubscribeCOVRequest"},
     processID : {0, 123, 255, 256, 379, 2147483647},
     object : {TheObject, [Type |-> 1023, Instance |-> 4194303],
               [Type |-> OBJECT_DEVICE, Instance |-> TheDevice.DeviceID]},
     confirmed : BOOLEAN,
     lifetime : {0, 60, 255},
     id : {1, 255}]

\* sendSubscribeCOVRequest builds its datagram: out keeps the APDU after
\* the four octets of its header (octets 11 and on of the datagram).
EncodeSubscribe ==
    /\ arg.f = "sendSubscribeCOVRequest"
    /\ out = NoOut
    /\ LET Tailed(d) == out' = [f |-> "sendSubscribeCOVRequest",
                                tail |-> SubSeq(d, 11, Len(d))]
       IN  Tailed(SubscribeCOVRequest(arg.id, arg.object, arg.processID,
                                      arg.confirmed, arg.lifetime))
    /\ UNCHANGED <<arg, lastID, restVars>>

\* The datagram d with octet number at (1-based) replaced by b; d itself
\* when at = 0.
WithOctet(d, at, b) ==
    [i \in 1..Len(d) |-> IF i = at THEN b ELSE d[i]]

\* Datagrams handed to parseIAm: the I-Am of device 1234, of the largest
\* object identifier and of an analog input, each with one octet replaced
\* (or none) and cut to any length; two senders.
IAmOctets == {0, 31, 34, 129, 145, 196}

IAmCalls ==
    [f : {"IAm"},
     base : {IAmDatagram, IAm(1023, 4194303), IAm(OBJECT_ANALOG_INPUT, 5)},
     at : 0..Len(IAmDatagram),
     octet : IAmOctets,
     cut : 0..Len(IAmDatagram),
     addr : {"device", "other"}]

\* The datagram a call of IAmCalls hands over.
IAmData(a) == SubSeq(WithOctet(a.base, a.at, a.octet), 1, a.cut)

\* WhoIs hands a received datagram and its sender to parseIAm.
DecodeIAm ==
    /\ arg.f = "IAm"
    /\ out = NoOut
    /\ LET Parsed(r) == out' = [f |-> "IAm", ok |-> r.ok, val |-> r.val]
       IN  Parsed(parseIAm(IAmData(arg), arg.addr))
    /\ UNCHANGED <<arg, lastID, restVars>>

\* Records of a notification's list of values: present value 42.0 and
\* an Unsigned 7 under property 111, up to two of them in any order.
CovRecords ==
    [id : {PROP_PRESENT_VALUE}, value : {ValueA}]
        \cup [id : {111}, value : {ValueB}]

CovRecordLists ==
    {<< >>} \cup {<<r>> : r \in CovRecords}
        \cup {<<r, q>> : r \in CovRecords, q \in CovRecords}

\* One record on the wire: 09 id 2E value 2F.
EncodeCovRecord(r) == <<9, r.id, 46>> \o r.value.bytes \o <<47>>

\* The notification a device sends for the records rs, fields in the
\* order parseCOVNotification reads them.
CovDatagram(rs) ==
    Reply(<<APDU_UNCONFIRMED_REQUEST, SERVICE_UNCONFIRMED_EVENT_NOTIFICATION>>
          \o <<9, TheProcessID>>
          \o <<28>> \o PackObjectId(OBJECT_DEVICE, TheDevice.DeviceID)
          \o <<44>> \o PackObjectId(TheObject.Type, TheObject.Instance)
          \o <<57, 50, 78>>
          \o Concat([i \in 1..Len(rs) |-> EncodeCovRecord(rs[i])])
          \o <<79>>)

\* Where record i of rs starts in CovDatagram(rs) (1-based octet number);
\* for i = Len(rs) + 1 the place of close-tag-4.
RECURSIVE RecordStart(_, _)
RecordStart(rs, i) ==
    IF i = 1 THEN 24
    ELSE RecordStart(rs, i - 1) + 4 + Len(rs[i - 1].value.bytes)

\* The octets of CovDatagram(rs) that are tags of the layout: those of the
\* four leading fields and open-tag-4, then the three of each record, then
\* close-tag-4.
CovTagPlaces(rs) ==
    {9, 11, 16, 21, 23}
        \cup UNION {{RecordStart(rs, i), RecordStart(rs, i) + 2,
                     RecordStart(rs, i + 1) - 1} : i \in 1..Len(rs)}
        \cup {RecordStart(rs, Len(rs) + 1)}

\* Octets put in the place of a tag.
CovOctets == {0, 9, 46, 47, 78, 79}

\* Notifications handed to parseCOVNotification: one tag replaced (or
\* none, at = 0) and the datagram cut to any length from its header on.
CovCalls ==
    UNION {[f : {"COV"}, records : {rs},
            at : {0} \cup CovTagPlaces(rs),
            octet : CovOctets,
            cut : 8..Len(CovDatagram(rs))] : rs \in CovRecordLists}

\* The datagram a call of CovCalls hands over.
CovData(a) == SubSeq(WithOctet(CovDatagram(a.records), a.at, a.octet), 1, a.cut)

\* The worker hands a polled datagram to parseCOVNotification.
DecodeCov ==
    /\ arg.f = "COV"
    /\ out = NoOut
    /\ LET Parsed(r) == out' = [f |-> "COV", ok |-> r.ok, val |-> r.val]
       IN  Parsed(parseCOVNotification(CovData(arg)))
    /\ UNCHANGED <<arg, lastID, restVars>>

\* Application values of every tag number: the tag octet with a length of
\* 0..4 in its low bits, or 5 there and the length (at most 6) in the next
\* octet, and then eight more octets, enough for any of these lengths.  The
\* first of the eight is 4, the unused-bit count decodeStatusFlags takes.
ValueFiller == <<4, 10, 0, 0, 0, 0, 0, 0>>

ValueCalls ==
    [f : {"Value"}, tagNumber : 0..15, lenVal : 0..4, ext : {FALSE}]
        \cup [f : {"Value"}, tagNumber : 0..15, lenVal : {0, 1, 2, 4, 6},
              ext : {TRUE}]

\* The octets a call of ValueCalls hands over.
ValueData(a) ==
    (IF a.ext THEN <<a.tagNumber * 16 + 5, a.lenVal>>
     ELSE <<a.tagNumber * 16 + a.lenVal>>) \o ValueFiller

\* decodeApplicationValue is handed a reader at the start of ValueData;
\* out keeps where it leaves the reader.
DecodeValue ==
    /\ arg.f = "Value"
    /\ out = NoOut
    /\ LET Decoded(r) == out' = [f |-> "Value", ok |-> r.ok, pos |-> r.pos]
       IN  Decoded(decodeApplicationValue(ValueData(arg), 0))
    /\ UNCHANGED <<arg, lastID, restVars>>

\* CharacterStrings of every declared length 0..253, the length in the
\* tag's low bits (up to 4) or in the octet after it, with 253 more octets
\* to read from.
StringCalls ==
    [f : {"String"}, lenVal : 0..4, ext : {FALSE}]
        \cup [f : {"String"}, lenVal : 0..253, ext : {TRUE}]

StringData(a) ==
    (IF a.ext THEN <<117, a.lenVal>> ELSE <<112 + a.lenVal>>)
        \o [i \in 1..253 |-> 65]

\* decodeApplicationValue is handed a reader at a CharacterString.  out
\* keeps the length of the buffer it makes for the payload.  A buffer of
\* 2^32-1 octets may be more than the program can be given: then the
\* runtime ends the program (fatal) instead of returning.
DecodeString ==
    /\ arg.f = "String"
    /\ out = NoOut
    /\ \E fatal \in BOOLEAN :
          /\ fatal => StringBufferLen(arg.lenVal).hi # 0
          /\ LET Decoded(r) ==
                     out' = [f |-> "String", ok |-> r.ok /\ ~fatal,
                             fatal |-> fatal,
                             request |-> StringBufferLen(arg.lenVal),
                             pos |-> r.pos]
             IN  Decoded(decodeApplicationValue(StringData(arg), 0))
    /\ UNCHANGED <<arg, lastID, restVars>>

\* Property identifiers a caller may ask for (uint32): within one octet
\* and beyond it.
PropertyIds == {0, PROP_PRESENT_VALUE, 255, 256, 341, 2147483647}

\* Calls of the two operations that name properties: ids are the
\* properties asked for, in order.  ReadPropertiesFromMultipleObjects asks
\* for ids[1] of two objects.
PropertyCalls ==
    [f : {"Properties"},
     op : {"ReadPropertiesFromMultipleObjects",
           "ReadSpecificPropertiesFromObject"},
     ids : {<<a>> : a \in PropertyIds}
             \cup {<<a, b>> : a \in PropertyIds, b \in PropertyIds},
     id : {1}]

\* The operation builds its datagram; out keeps, for each property
\* reference in it, the tag octet and the octet after it.  In the request
\* of ReadSpecificPropertiesFromObject the references start at octet 17,
\* two octets each; in that of ReadPropertiesFromMultipleObjects each
\* object has nine octets from octet 10 on, the reference the seventh and
\* eighth of them.
EncodeProperties ==
    /\ arg.f = "Properties"
    /\ out = NoOut
    /\ IF arg.op = "ReadSpecificPropertiesFromObject"
       THEN LET Refs(d) ==
                    out' = [f |-> "Properties",
                            tags |-> [i \in 1..Len(arg.ids) |-> d[15 + 2 * i]],
                            refs |-> [i \in 1..Len(arg.ids) |-> d[16 + 2 * i]]]
            IN  Refs(ReadSpecificPropertiesFromObjectRequest(arg.id, TheObject,
                                                             arg.ids))
       ELSE LET Refs(d) ==
                    out' = [f |-> "Properties",
                            tags |-> [i \in 1..2 |-> d[9 * i + 7]],
                            refs |-> [i \in 1..2 |-> d[9 * i + 8]]]
            IN  Refs(ReadPropertiesFromMultipleObjectsRequest(arg.id,
                         <<TheObject, TheObject>>, arg.ids[1]))
    /\ UNCHANGED <<arg, lastID, restVars>>

\* Every lifetime a uint8 holds.
IntervalCalls == [f : {"reSubscribeInterval"}, lifetime : 0..255]

\* handleCOVSubscription starts its renewal ticker: out keeps the period,
\* in milliseconds.
NewTicker ==
    /\ arg.f = "reSubscribeInterval"
    /\ out = NoOut
    /\ out' = [f |-> "reSubscribeInterval",
               ms |-> 1000 * reSubscribeInterval(arg.lifetime)]
    /\ UNCHANGED <<arg, lastID, restVars>>

\* Octets that may follow the tag of a BitString, and how many of them the
\* input still holds.
MaxRest == 3

RestOctets == {0, 3, 4, 5, 138, 255}

RECURSIVE Rests(_)
Rests(n) ==
    IF n = 0 THEN {<< >>}
    ELSE Rests(n - 1) \cup {Append(r, b) : r \in Rests(n - 1), b \in RestOctets}

\* Application-tagged BitStrings: the tag octet 8L for every L, then up to
\* MaxRest octets.
BitStrings ==
    [f : {"BitString"},
     data : {<<128 + l>> \o r : l \in 0..15, r \in Rests(MaxRest)}]

\* decodeApplicationValue is handed a reader that stands at a BitString.
DecodeBitString ==
    /\ arg.f = "BitString"
    /\ out = NoOut
    /\ LET Decoded(r) == out' = [f |-> "BitString", ok |-> r.ok,
                                   val |-> r.val]
       IN  Decoded(decodeApplicationValue(arg.data, 0))
    /\ UNCHANGED <<arg, lastID, restVars>>

InitCodec ==
    /\ InitStill
    /\ lastID = 0
    /\ out = NoOut
    /\ \/ arg \in EncoderCalls
       \/ arg \in DecoderCalls
       \/ arg \in ObjectIds
       \/ arg \in BitStrings
       \/ arg \in AckCalls
       \/ arg \in IntervalCalls
       \/ arg \in ObjectListCalls
       \/ arg \in SubscribeCalls
       \/ arg \in IAmCalls
       \/ arg \in CovCalls
       \/ arg \in ValueCalls
       \/ arg \in StringCalls
       \/ arg \in PropertyCalls

CodecNext ==
    \/ Encode
    \/ Decode
    \/ PackUnpack
    \/ DecodeBitString
    \/ DecodeAck
    \/ NewTicker
    \/ DecodeObjectList
    \/ EncodeSubscribe
    \/ DecodeIAm
    \/ DecodeCov
    \/ DecodeValue
    \/ DecodeString
    \/ EncodeProperties

CodecSpec == InitCodec /\ [][CodecNext]_vars

(***************************************************************************)
(* Properties                                                              *)
(***************************************************************************)
IsPrefix(s, t) == Len(s) <= Len(t) /\ SubSeq(t, 1, Len(s)) = s

\* The service choice and the acknowledgement type of each exchange.
ServiceOf(op) ==
    CASE op = "GetObjectList" -> SERVICE_CONFIRMED_READ_PROPERTY
      [] op = "SubscribeCOV" -> SERVICE_CONFIRMED_SUBSCRIBE_COV
      [] OTHER -> SERVICE_CONFIRMED_READ_PROPERTY_MULTIPLE

AckTypeOf(op) ==
    IF op = "SubscribeCOV" THEN APDU_SIMPLE_ACK ELSE APDU_COMPLEX_ACK

\* C1: whichever way the subscription worker terminates (initial
\* SubscribeCOV failure, cancellation, renewal failure, receive error), the
\* notification channel and the error channel are both closed, and no value
\* is ever sent on a channel that has been closed.
ChannelsClosedOnExit ==
    /\ pc[W] = "done" => covClosed /\ errClosed
    /\ ~sendOnClosed

\* C1 witness: the worker has terminated on cancellation after delivering a
\* notification, and both channels are closed.
ClosedAfterCancel ==
    /\ pc[W] = "done"
    /\ cancelled
    /\ delivered # << >>
    /\ errBuf = << >>
    /\ covClosed /\ errClosed

\* C2: once the context is cancelled, a started worker eventually terminates
\* with both channels closed, whatever its consumer does.
CancelledLeadsToClosed ==
    (cancelled /\ phase \in {"initial", "running"})
        ~> (pc[W] = "done" /\ covClosed /\ errClosed)

\* C3: an exchange returns success only if the datagram it read has the
\* expected acknowledgement type and an invoke-ID octet equal to the invoke
\* ID allocated for the call.
SuccessOnlyOnMatchingAck ==
    \A p \in Lockers :
        (pc[p] = "ret" /\ res[p].outcome = "ok") =>
            /\ Len(res[p].data) >= 8
            /\ HighNibble(res[p].data[7]) = AckTypeOf(res[p].op)
            /\ res[p].data[8] = res[p].invokeID

\* C4: every confirmed request put on the wire carries 0x02, 0x75, the
\* invoke ID allocated for the call, and then the service choice.
RequestCarriesInvokeID ==
    \A r \in pending :
        /\ Len(r.bytes) >= 10
        /\ r.bytes[7] = 2
        /\ r.bytes[8] = 117
        /\ r.bytes[9] = r.id
        /\ r.bytes[10] = ServiceOf(r.op)

\* C5: while the subscription is running, each renewal SubscribeCOV request
\* is sent strictly less than `lifetime` seconds after the previous one.
RenewedBeforeExpiry ==
    phase = "running" => renewedAt < lifetime

\* C6: a well-formed COV notification (unconfirmed request, service choice
\* 0x01) that a running worker's poll reads is parsed and handed to the
\* notification channel with the fields the datagram encodes.
CovNotificationParsed ==
    (res[W].op = "poll"
        /\ res[W].data = EncodeNotification(SERVICE_UNCONFIRMED_COV_NOTIFICATION,
                                            NotificationA))
    => (res[W].outcome = "ok" /\ pc[W] = "sendCov" /\ wmsg = NotificationA)

\* C7: the notifications delivered on the notification channel are, in
\* order and without repetition, the notifications the worker read from the
\* socket: the delivered sequence is a prefix of the sequence read.
DeliveredInReadOrder == IsPrefix(delivered, polled)

\* C7 witness: two different notifications have been read and delivered.
TwoDelivered ==
    /\ Len(delivered) = 2
    /\ delivered[1] # delivered[2]
    /\ polled = delivered

\* The socket section of an operation: from its send, or its deadline
\* change, to the end of its read.
InSocketSection(p) == pc[p] \in {"send", "read", "pollRead"}

\* C8: at most one of the request/response operations and the worker's poll
\* is in its socket section, and whoever is there holds the mutex.
OneInSocketSection ==
    \A p, q \in Lockers :
        InSocketSection(p) /\ InSocketSection(q) => p = q /\ mu = p

\* C8 witness: a caller is waiting for its reply while the worker waits for
\* the mutex.
WaitingForMutex ==
    /\ pc["t1"] = "read"
    /\ pc[W] \in {"lock", "pollLock"}
    /\ mu = "t1"

\* C9: discovery never reads the socket while the worker's poll or another
\* transaction of the same client is in its socket section.
DiscoveryNeverConcurrent ==
    pc[D] = "read" => \A p \in Lockers : ~InSocketSection(p)

\* C10: no transaction or poll reads a datagram that a device sent in reply
\* to an earlier transaction.
NoStaleReplyRead ==
    \A p \in Lockers :
        res[p].op # "none" =>
            \/ res[p].re = -1
            \/ res[p].op # "poll" /\ res[p].re = res[p].invokeID


\* C11: an exchange never returns success on a datagram the device sent in
\* reply to an earlier request that carried the same invoke ID.
NoInvokeIDCollision ==
    \A p \in Lockers :
        (pc[p] = "ret" /\ res[p].outcome = "ok") =>
            ~(res[p].re # -1 /\ ~res[p].own)

\* C12: the k-th value GInvokeIDManager.Next returns is k mod 256, whoever
\* the callers are and however they interleave, and it differs from each of
\* the 255 values returned before it.
NextCountsModulo256 ==
    LET n == Len(arg.issued)
    IN  n > 0 =>
            /\ arg.issued[n] = n % 256
            /\ \A j \in 1..(n - 1) :
                   n - j < 256 => arg.issued[j] # arg.issued[n]

\* C12 witness: the counter has wrapped (the 256th value was 0, the 257th
\* is 1) while the other goroutine waits for the allocator's mutex.
NextWrapped ==
    /\ Len(arg.issued) = 257
    /\ arg.issued[255] = 255
    /\ arg.issued[256] = 0
    /\ out.value = 1
    /\ \E p \in Lockers : arg.at[p] = "lock" /\ p # out.who

\* C13: when the initial SubscribeCOV exchange fails, the worker heads for
\* its exit and never runs: it puts exactly one error, "initial SubscribeCOV
\* failed", on the error channel, delivers no notification, starts no other
\* exchange or poll, and ends with both channels closed.
InitialFailureEndsWorker ==
    /\ [](werr = "initial SubscribeCOV failed" =>
            /\ phase # "running"
            /\ polled = << >> /\ delivered = << >>
            /\ (pc[W] = "done" => covClosed /\ errClosed))
    /\ [][((pc[W] = "ret" /\ phase = "initial" /\ res[W].outcome # "ok"
                /\ pc'[W] # "ret") =>
             (pc'[W] = "errExit" /\ werr' = "initial SubscribeCOV failed"))
          /\ (werr = "initial SubscribeCOV failed" =>
                /\ pc'[W] \in {"errExit", "done"}
                /\ (pc'[W] # pc[W] => errBuf' = <<werr>>)
                /\ (pc[W] = "done" => Len(errBuf') <= Len(errBuf)))]_vars

\* C13 witness: the initial exchange read a reply that is no Simple-ACK for
\* it; the worker has ended, its one error is in the error channel, and both
\* channels are closed.
InitialFailureReported ==
    /\ pc[W] = "done"
    /\ werr = "initial SubscribeCOV failed"
    /\ errBuf = <<"initial SubscribeCOV failed">>
    /\ covClosed /\ errClosed
    /\ delivered = << >>

\* C14: once a renewal has failed, the worker ends with both channels
\* closed, whatever the error channel holds at that moment, an unconsumed
\* parse error included.
RenewalFailureEndsWorker ==
    (pc[W] = "errExit" /\ werr = "re-subscription failed")
        ~> (pc[W] = "done" /\ covClosed /\ errClosed)

\* The DeviceInfo of the datagrams of q that parse as I-Am, in q's order.
RECURSIVE IAmsIn(_)
IAmsIn(q) ==
    IF q = << >> THEN << >>
    ELSE LET r == parseIAm(Head(q), "device")
         IN  (IF r.ok THEN <<r.val>> ELSE << >>) \o IAmsIn(Tail(q))

\* C15: WhoIs writes exactly one datagram, the Who-Is 81 0B 00 08 01 00 10
\* 08, then reads until the deadline; what it has collected, and what it
\* returns at the deadline, is the DeviceInfo of the datagrams read that parse
\* as I-Am, in the order read; a datagram that does not parse is dropped and
\* the reading goes on.
WhoIsReturnsIAmsHeard ==
    /\ WhoIsRequest = <<129, 11, 0, 8, 1, 0, 16, 8>>
    /\ (pc[D] = "read" \/ dres.outcome = "ok") => dsent = <<WhoIsRequest>>
    /\ pc[D] = "read" => devices = IAmsIn(heard)
    /\ dres.outcome = "ok" => dres.devices = IAmsIn(heard)

\* C15 witness: WhoIs has returned two devices in the order their I-Am were
\* read, having dropped a datagram read between the two.
TwoDevicesAroundADrop ==
    /\ dres.outcome = "ok"
    /\ heard = <<IAm(OBJECT_DEVICE, 77), ShortSimpleAck, IAmDatagram>>
    /\ Len(dres.devices) = 2
    /\ dres.devices[1].DeviceID = 77
    /\ dres.devices[2].DeviceID = TheDevice.DeviceID

\* C16: every DeviceInfo discovery yields comes from an I-Am whose object
\* identifier (octets 10..13 of the datagram) has object type Device (8).
DiscoversOnlyDevices ==
    \A i \in 1..Len(heard) :
        parseIAm(heard[i], "device").ok =>
            UnpackObjectId(SubSeq(heard[i], 10, 13)).Type = OBJECT_DEVICE

\* C17: the BVLC length field of the datagram an operation writes equals
\* the number of octets of that datagram, whatever the length of the object
\* or property list.
LengthFieldIsOctetCount ==
    out.f \in Encoders => out.length = out.octets

\* C18: a reply decoder (parseIAm, parseObjectList, parseObjectPropertyList,
\* parseReadPropertyMultipleResponse, parseCOVNotification, the Simple-ACK
\* check) rejects every datagram whose first octet, the BVLC type, is not
\* 0x81.
DecodersRejectOtherBvlcTypes ==
    (out.f \in Decoders /\ arg.data[1] # BVLC_TYPE_BACNET_IP) => ~out.ok

\* C19: an object identifier of type 0..1023 and instance 0..2^22-1, packed
\* as (type << 22) | instance and written big-endian, unpacks as (word >> 22,
\* word & 0x3FFFFF) to the same pair; (1023, 0x3FFFFF) packs to FF FF FF FF;
\* a decoded type is at most 0x3FF and a decoded instance at most 0x3FFFFF.
ObjectIdRoundTrip ==
    out.f = "ObjectId" =>
        /\ out.back = [Type |-> arg.type, Instance |-> arg.instance]
        /\ out.back.Type <= 1023 /\ out.back.Instance <= 4194303
        /\ (arg.type = 1023 /\ arg.instance = 4194303) =>
               out.word = <<255, 255, 255, 255>>

\* C19 witness: the largest identifier has been packed to FF FF FF FF and
\* read back.
LargestObjectIdPacked ==
    /\ out.f = "ObjectId"
    /\ arg.type = 1023 /\ arg.instance = 4194303
    /\ out.word = <<255, 255, 255, 255>>
    /\ out.back = [Type |-> 1023, Instance |-> 4194303]

\* Where the count of unused bits stands in a BitString (1-based): after the
\* tag octet, and after the extended length octet of a tag 85.
UnusedBitsAt(data) == IF data[1] % 16 = 5 THEN 3 ELSE 2

\* The count of unused bits is there and it is 4.
FourUnusedBits(data) ==
    Len(data) >= UnusedBitsAt(data) /\ data[UnusedBitsAt(data)] = 4

\* C20 as stated: decoding an application-tagged BitString as StatusFlags
\* fails if and only if its count of unused bits is not 4, whatever the tag
\* octet, the declared length and the input that remains.
StatusFlagsFailIffNotFour ==
    out.f = "BitString" => (~out.ok <=> ~FourUnusedBits(arg.data))

\* C20 amended: the decoding fails if and only if the count of unused bits
\* is missing or not 4, or the octet of flags after it is missing.
StatusFlagsFailIffNotFourOrCut ==
    out.f = "BitString" =>
        (~out.ok <=> \/ ~FourUnusedBits(arg.data)
                     \/ Len(arg.data) < UnusedBitsAt(arg.data) + 1)

\* C20 witness: a BitString whose count of unused bits is 4 and whose input
\* ends there has failed to decode.
StatusFlagsCutAfterCount ==
    /\ out.f = "BitString"
    /\ arg.data \in {<<129, 4>>, <<133, 1, 4>>}
    /\ ~out.ok

\* StatusFlags {inAlarm = true, fault = false, overridden = true,
\* outOfService = false}
FlagsOf8A ==
    [k |-> "StatusFlags", InAlarm |-> TRUE, Fault |-> FALSE,
     Overridden |-> TRUE, OutOfService |-> FALSE]

\* C21 as stated: decodeApplicationValue applied to the octets 85 04 8A
\* returns StatusFlags {inAlarm, not fault, overridden, not outOfService}.
Decodes85048A ==
    (out.f = "BitString" /\ arg.data = <<133, 4, 138>>) =>
        (out.ok /\ out.val = FlagsOf8A)

\* C21 amended: applied to 85 04 8A, decodeApplicationValue takes 04 for an
\* extended length and 8A for the count of unused bits, and fails; it is
\* the octets 82 04 8A that decode to those StatusFlags.
Decodes82048A ==
    out.f = "BitString" =>
        /\ arg.data = <<133, 4, 138>> => ~out.ok
        /\ arg.data = <<130, 4, 138>> => (out.ok /\ out.val = FlagsOf8A)

\* C21 witness: 85 04 8A has been handed to decodeApplicationValue, which
\* returned an error.
Rejected85048A ==
    out.f = "BitString" /\ arg.data = <<133, 4, 138>> /\ ~out.ok

\* The objects and the property identifiers that appear in an ACK body.
ObjectsIn(body) == {body[i].object : i \in 1..Len(body)}

PropertiesIn(body) ==
    UNION {{body[i].props[j].id : j \in 1..Len(body[i].props)} :
             i \in 1..Len(body)}

\* C22: parseReadPropertyMultipleResponse returns one map entry for each
\* distinct object identifier of the ACK body, and the property identifiers
\* of the entries together are those of the body, also when an object
\* identifier appears in more than one read-access result.
OneEntryPerObjectAllProperties ==
    (/\ out.f = "Ack"
     /\ arg.parser = "parseReadPropertyMultipleResponse"
     /\ out.ok) =>
        /\ DOMAIN out.val = ObjectsIn(arg.body)
        /\ UNION {DOMAIN out.val[o] : o \in DOMAIN out.val}
               = PropertiesIn(arg.body)

\* What the values of one property record are returned as: the value
\* itself when there is one, the list of the values in wire order otherwise.
ReturnedAs(values) ==
    IF Len(values) = 1 THEN values[1].val
    ELSE [k |-> "list", items |-> [i \in 1..Len(values) |-> values[i].val]]

\* The last property record of the last read-access result of a body.
LastRecord(body) == body[Len(body)].props[Len(body[Len(body)].props)]

\* C23: both ReadPropertyMultiple-ACK decoders accept one or more
\* application values between open-tag-4 and close-tag-4 of every property
\* record and return the value itself when there is one, the list of the
\* values in wire order when there are more: here for the last record of the
\* ACK, which the decoder returns as its last record (parseObjectPropertyList)
\* or under its object and property (parseReadPropertyMultipleResponse).
OneOrMoreValuesAccepted ==
    (/\ out.f = "Ack"
     /\ arg.body[Len(arg.body)].props # << >>
     /\ \A i \in 1..Len(arg.body) : \A j \in 1..Len(arg.body[i].props) :
            Len(arg.body[i].props[j].values) >= 1) =>
        /\ out.ok
        /\ IF arg.parser = "parseObjectPropertyList"
           THEN out.val[Len(out.val)] =
                    [PropertyID |-> LastRecord(arg.body).id,
                     Value |-> ReturnedAs(LastRecord(arg.body).values)]
           ELSE out.val[arg.body[Len(arg.body)].object][LastRecord(arg.body).id]
                    = ReturnedAs(LastRecord(arg.body).values)

\* C24: the period of the renewal ticker is max(1 s, 0.8 x lifetime) for
\* every lifetime in 0..255 (in milliseconds: the larger of 1000 and
\* 800 x lifetime); it is 1 s for lifetime 0 and 48 s for lifetime 60.
PeriodIsEightTenths ==
    out.f = "reSubscribeInterval" =>
        /\ out.ms = IF 800 * arg.lifetime > 1000 THEN 800 * arg.lifetime
                    ELSE 1000
        /\ arg.lifetime = 0 => out.ms = 1000
        /\ arg.lifetime = 60 => out.ms = 48000

\* C25: a worker that has read a datagram which is no notification puts
\* the error on the error channel and is back in its loop, running, however
\* many such errors came before and whether or not they were received.
ParseFailureLeavesWorkerRunning ==
    (pc[W] = "sendErr") ~> (pc[W] = "select" /\ phase = "running")

\* C26: the worker holds the client mutex only inside one socket operation
\* (a SubscribeCOV send-and-await, or a poll's read), never while it waits in
\* its select or on a channel send; so a caller waiting for the mutex gets
\* it, even if the consumer never receives.
WorkerHoldsMutexOnlyOnSocket ==
    /\ [](mu = W => pc[W] \in {"send", "read", "pollRead"})
    /\ \A t \in Callers : (pc[t] = "lock") ~> (mu = t)

\* C26 witness: a caller holds the mutex while the worker waits to hand a
\* notification to a consumer that is not receiving.
CallerLocksWhileWorkerSends ==
    \E t \in Callers : mu = t /\ pc[W] = "sendCov"

\* C27: a poll of a running worker blocks, holding the mutex, for no more
\* than the polling interval of about 100 ms, whatever the client's request
\* timeout: on a clock of seconds, no second passes while the worker is in
\* its poll's read, so the read deadline still stands at the full timeout.
PollIsShort ==
    (timed /\ pc[W] = "pollRead") => (mu = W /\ deadline = timeout)

\* A datagram that is no Complex-ACK, or carries another invoke ID.
Stray(d, id) ==
    \/ Len(d) < 8
    \/ HighNibble(d[7]) # APDU_COMPLEX_ACK
    \/ d[8] # id

\* C28: a request/response call goes once through lock, send, read and
\* return: it writes exactly one datagram and reads the socket at most once,
\* whatever the outcome; when the datagram it reads is a stray, the call
\* returns a protocol error without reading again, and the stray is gone
\* from the socket.
NoAutomaticRetry ==
    [][\A t \in Callers :
          /\ pc'[t] # pc[t] =>
                <<pc[t], pc'[t]>> \in
                    {<<"idle", "lock">>, <<"lock", "send">>,
                     <<"send", "read">>, <<"send", "ret">>,
                     <<"read", "ret">>, <<"ret", "idle">>}
          /\ (pc[t] = "send" /\ pc'[t] = "read") =>
                Cardinality(pending' \ pending) = 1
          /\ (pc'[t] = pc[t] /\ pc'[W] = pc[W]) =>
                {r \in pending' : ~r.stale} \subseteq pending
          /\ (pc[t] = "read" /\ pc'[t] = "ret" /\ res'[t].data # << >>) =>
                /\ res'[t].data = Head(sock).bytes
                /\ Len(sock') = Len(sock) - 1
                /\ Stray(res'[t].data, call[t].invokeID) =>
                       res'[t].outcome = "protocol"]_vars

\* C28 witness: a call has read a datagram nobody asked for, returns a
\* protocol error, and the socket is empty again.
StrayReadOnce ==
    \E t \in Callers :
        /\ pc[t] = "ret"
        /\ res[t].outcome = "protocol"
        /\ res[t].re = -1
        /\ Stray(res[t].data, res[t].invokeID)
        /\ sock = << >>

\* C29: parseObjectList returns an object list only for a response whose
\* list of object identifiers is closed by close-tag-3; a response that ends
\* before the closing tag is a parse failure, not a shorter list.
ObjectListNeedsClosingTag ==
    (out.f = "ObjectList" /\ out.ok) => out.whole

\* The four octets, most significant first, of type * 2^22 + instance, for
\* a type of at most 10 bits and an instance of at most 22: the type's high
\* eight bits, its low two above the instance's high six, then the rest.
WordOf(object) ==
    <<object.Type \div 4,
      (object.Type % 4) * 64 + object.Instance \div 65536,
      (object.Instance \div 256) % 256,
      object.Instance % 256>>

\* C30: the APDU of a SubscribeCOV request ends 09 p 1C w3 w2 w1 w0 29 c
\* 39 l: p the process identifier modulo 256, w the packed object
\* identifier, c 1 for confirmed notifications and 0 otherwise, l the
\* lifetime; for process 123, analog input 3, unconfirmed, lifetime 60 it is
\* 09 7B 1C 00 00 00 03 29 00 39 3C.
SubscribeTailAsSpecified ==
    out.f = "sendSubscribeCOVRequest" =>
        /\ out.tail = <<9, arg.processID % 256, 28>> \o WordOf(arg.object)
                        \o <<41, IF arg.confirmed THEN 1 ELSE 0>>
                        \o <<57, arg.lifetime>>
        /\ (/\ arg.processID = 123 /\ arg.object = TheObject
            /\ ~arg.confirmed /\ arg.lifetime = 60) =>
               out.tail = <<9, 123, 28, 0, 0, 0, 3, 41, 0, 57, 60>>

\* C30 witness: the request for process 123, analog input 3, unconfirmed,
\* lifetime 60 has been built and ends 09 7B 1C 00 00 00 03 29 00 39 3C.
SubscribeTailOfExample ==
    /\ out.f = "sendSubscribeCOVRequest"
    /\ arg.processID = 123 /\ arg.object = TheObject
    /\ ~arg.confirmed /\ arg.lifetime = 60
    /\ out.tail = <<9, 123, 28, 0, 0, 0, 3, 41, 0, 57, 60>>

\* BVLC type 0x81, APDU type unconfirmed-request, service I-Am, and the tag
\* octets C4, 22, 91, 22 each followed by its 4, 2, 1, 2 payload octets.
WellFormedIAm(d) ==
    /\ Len(d) >= 21
    /\ d[1] = 129
    /\ d[7] \div 16 = 1
    /\ d[8] = 0
    /\ d[9] = 196 /\ d[14] = 34 /\ d[17] = 145 /\ d[19] = 34

\* C31: parseIAm succeeds exactly when the datagram has BVLC type 0x81,
\* APDU type unconfirmed-request, service I-Am and the tag octets C4, 22,
\* 91, 22 in that order each followed by its full payload; on success the
\* device ID is the low 22 bits of the object identifier, Max-APDU the
\* 16-bit value read, and the address that of the sender (device ID 1234
\* for the sample I-Am).
IAmAcceptedIffWellFormed ==
    out.f = "IAm" =>
        LET d == IAmData(arg)
        IN  /\ out.ok <=> WellFormedIAm(d)
            /\ out.ok =>
                  /\ out.val.DeviceID =
                         (d[11] % 64) * 65536 + d[12] * 256 + d[13]
                  /\ out.val.MaxAPDU = d[15] * 256 + d[16]
                  /\ out.val.Addr = arg.addr
            /\ d = IAmDatagram => (out.ok /\ out.val.DeviceID = 1234)

\* C31 witness: an I-Am whose object identifier has all 32 bits set and
\* whose APDU octet carries flag bits has been accepted, with the device ID
\* cut to 22 bits.
LargestIAmAccepted ==
    /\ out.f = "IAm" /\ out.ok
    /\ arg.base = IAm(1023, 4194303) /\ arg.at = 7 /\ arg.octet = 31
    /\ out.val.DeviceID = 4194303

\* The records of a call's datagram as parseCOVNotification returns them.
ValuesOf(rs) ==
    [i \in 1..Len(rs) |-> [PropertyID |-> rs[i].id, Value |-> rs[i].value.val]]

\* C32: past its header checks parseCOVNotification requires context-0
\* subscriber process ID, context-1 initiating device, context-2 monitored
\* object, context-3 time remaining, open-tag-4, k >= 0 records of
\* (context-0 property ID, open-tag-2, one application value, close-tag-2),
\* close-tag-4; it returns the k records in wire order, an empty list when
\* k = 0, and fails on any tag mismatch or on input that ends before
\* close-tag-4.  (A close-tag-4 in the place where a record would start is
\* the end of the list: the records before it are returned.)
NotificationLayoutRequired ==
    out.f = "COV" =>
        LET rs == arg.records
            whole == CovDatagram(rs)
            changed == /\ arg.at # 0
                       /\ arg.at <= arg.cut
                       /\ whole[arg.at] # arg.octet
            endsAt == {i \in 1..Len(rs) :
                          /\ changed
                          /\ arg.octet = 79
                          /\ arg.at = RecordStart(rs, i)}
            kept == IF endsAt = {} THEN rs
                    ELSE SubSeq(rs, 1, (CHOOSE i \in endsAt : TRUE) - 1)
        IN  /\ out.ok <=> (endsAt # {} \/ (~changed /\ arg.cut = Len(whole)))
            /\ out.ok => out.val.ListOfValues = ValuesOf(kept)

\* C32 witness: a notification with two different records has been decoded
\* and both are returned, the first on the wire first.
TwoRecordsInWireOrder ==
    /\ out.f = "COV" /\ out.ok
    /\ Len(arg.records) = 2
    /\ arg.records[1].id = PROP_PRESENT_VALUE /\ arg.records[2].id = 111
    /\ Len(out.val.ListOfValues) = 2
    /\ out.val.ListOfValues[1].PropertyID = PROP_PRESENT_VALUE
    /\ out.val.ListOfValues[2].PropertyID = 111

\* The device's matching Simple-ACK of the worker's last SubscribeCOV
\* request has reached the socket.
RenewalAcknowledged ==
    \E i \in 1..Len(sock) :
        sock[i].bytes = SimpleAck(res[W].invokeID, SERVICE_CONFIRMED_SUBSCRIBE_COV)

\* C33: a Running subscription whose device acknowledges every SubscribeCOV
\* request with a matching Simple-ACK within the timeout is never
\* terminated by a renewal failure, in particular not when a notification,
\* or a late reply to another transaction, arrives on the socket while the
\* renewal exchange is in progress: no renewal returns an error for having
\* read a notification while the device's acknowledgement of it is in the
\* socket.
AcknowledgedRenewalNeverFails ==
    ~(/\ pc[W] = "ret"
      /\ phase = "running"
      /\ ~IsNil(res[W])
      /\ res[W].data \in Datagrams
      /\ NotificationOf[res[W].data].ok
      /\ RenewalAcknowledged)

\* C34: once the cancellation signal has fired the worker sends no further
\* SubscribeCOV datagram and delivers no further notification or error: in
\* any loop iteration where cancellation is already signalled, the renewal
\* and poll branches are not taken.
NoBranchAfterCancel ==
    [][(cancelled /\ pc[W] = "select") => pc'[W] \in {"select", "done"}]_vars

\* C35: every request/response call eventually returns, also while a
\* subscription worker of the same client is running and whatever its
\* consumer does, given fair scheduling and socket reads that return a
\* datagram or time out; callers and worker never deadlock on the client
\* mutex: a held mutex is released again.
EveryCallReturns ==
    /\ \A t \in Callers : (pc[t] = "lock") ~> (pc[t] = "ret")
    /\ (mu # "free") ~> (mu = "free")

\* C35 witness: a call has returned while the worker waits to hand a
\* notification to a consumer that does not receive.
CallReturnedWhileWorkerSends ==
    \E t \in Callers : pc[t] = "ret" /\ pc[W] = "sendCov" /\ mu = "free"

\* C36: the client mutex is released on every return path of every
\* operation that acquires it (success, send failure, read timeout,
\* transport error, protocol error): whenever no process is inside an
\* exchange or a poll's read, the mutex is free, and a process that has
\* just returned does not hold it.
MutexFreeOutsideOperations ==
    /\ (\A p \in Lockers : pc[p] \notin {"send", "read", "pollRead"}) =>
           mu = "free"
    /\ \A p \in Lockers : pc[p] = "ret" => mu # p

\* C36 witness: a caller's operation has returned a protocol error while
\* nothing else runs, and the mutex is free.
ReturnedErrorMutexFree ==
    \E t \in Callers :
        /\ pc[t] = "ret" /\ res[t].outcome = "protocol"
        /\ \A p \in Lockers : pc[p] \notin {"send", "read", "pollRead"}
        /\ mu = "free"

\* C37: on success decodeApplicationValue consumes exactly the tag octet,
\* the optional extended-length octet, and as many payload octets as the
\* tag's length field declares, for every tag number (Boolean and Null
\* consuming no payload).
ConsumesDeclaredLength ==
    (out.f = "Value" /\ out.ok) =>
        out.pos = 1 + (IF arg.ext THEN 1 ELSE 0)
                    + (IF arg.tagNumber \in {0, 1} THEN 0 ELSE arg.lenVal)

\* C38: for a CharacterString of declared length L in 0..253 the decoder
\* asks for a payload of exactly L-1 octets after the encoding octet and
\* never for a wrapped-around length: with L = 0 the 32-bit L-1 does not
\* become 2^32-1, and the decoder returns an ordinary error.
StringLengthNeverWraps ==
    out.f = "String" =>
        /\ out.request.hi = 0
        /\ arg.lenVal >= 1 => out.request.lo = arg.lenVal - 1
        /\ arg.lenVal = 0 => (~out.ok /\ ~out.fatal)

\* C39: if a socket read during discovery fails with an error that is no
\* timeout, WhoIs returns that error and none of the devices it had
\* collected; devices are returned only when the loop ends by the read
\* deadline.
ReadErrorDiscardsDevices ==
    /\ [](dres.outcome # "ok" => dres.devices = << >>)
    /\ [][(pc[D] = "read" /\ pc'[D] = "idle" /\ dres'.devices # << >>) =>
             (dres'.outcome = "ok" /\ dres'.devices = devices)]_vars

\* C39 witness: WhoIs had collected a device when a read failed, and has
\* returned the error and no device.
ErrorAfterDeviceCollected ==
    /\ pc[D] = "idle"
    /\ dres.outcome = "transport" /\ dres.devices = << >>
    /\ devices # << >>

\* The properties a call of PropertyCalls asks the device for, in order.
Requested(a) ==
    IF a.op = "ReadSpecificPropertiesFromObject" THEN a.ids
    ELSE <<a.ids[1], a.ids[1]>>

\* C40: ReadSpecificPropertiesFromObject and
\* ReadPropertiesFromMultipleObjects put on the wire, for each requested
\* property, one context-0 length-1 property reference whose octet is the
\* requested property ID itself, for every property ID (no reduction
\* modulo 256), in the order requested.
PropertyRequestedIsPropertyAsked ==
    out.f = "Properties" =>
        /\ out.tags = [i \in 1..Len(Requested(arg)) |-> 9]
        /\ out.refs = Requested(arg)

=============================================================================
